---- MODULE Spec2Model ----
(***************************************************************************)
(* Model of the PDI MCP server: the response-envelope builders and date    *)
(* helpers of src/tools/utils.py, the tool implementations that use them,  *)
(* the front ends that dispatch a call by tool name, the connection        *)
(* providers of src/db and the start-up of a process in its environment.   *)
(***************************************************************************)
EXTENDS Integers, Sequences, FiniteSets, TLC

(***************************************************************************)
(* Bounds of the model.                                                    *)
(***************************************************************************)
MaxDay == 2
MaxRows == 2

(***************************************************************************)
(* Python values that the builders look at.  None is the absent argument.  *)
(***************************************************************************)
None == "<None>"

\* Messages an exception can carry: str(exc) of a message-less exception is
\* the empty string.
ExcMessages == {"", "db down"}

(***************************************************************************)
(* Dates as Python sees them.  A string is kept as its text: a separator   *)
(* and three runs of digits, each with its width and its value, so that    *)
(* "0999" and "999" are different texts of the same number.  A date object *)
(* is its year, month and day.                                             *)
(***************************************************************************)
Field(w, v) == [w |-> w, v |-> v]

Str(sep, a, b, c) == [type |-> "str", sep |-> sep, f |-> <<a, b, c>>]

\* A string that is not three runs of digits, such as "yesterday".
Garbage == [type |-> "str", sep |-> "", f |-> <<>>]

DateObj(y, m, d) == [type |-> "date", y |-> y, m |-> m, d |-> d]

\* An argument that is neither a string nor a date.
NotADate == [type |-> "int", v |-> 20240101]

IsLeap(y) == (y % 4 = 0 /\ y % 100 # 0) \/ y % 400 = 0

DaysInMonth(y, m) ==
    IF m = 2 THEN (IF IsLeap(y) THEN 29 ELSE 28)
    ELSE IF m \in {4, 6, 9, 11} THEN 30 ELSE 31

RECURSIVE DaysBeforeMonth(_, _)
DaysBeforeMonth(y, m) ==
    IF m = 1 THEN 0 ELSE DaysBeforeMonth(y, m - 1) + DaysInMonth(y, m - 1)

\* date.toordinal(): the days from 0001-01-01, counted from 1.
toordinal(dt) ==
    LET y == dt.y - 1
    IN  365 * y + (y \div 4) - (y \div 100) + (y \div 400)
            + DaysBeforeMonth(dt.y, dt.m) + dt.d

Ok(v) == [ok |-> TRUE, val |-> v, exc |-> None]

Raise(msg) == [ok |-> FALSE, val |-> None, exc |-> msg]

\* The formats format_date tries, in its order; each is a separator and
\* the order of its three directives.
DateFormats == <<"%Y-%m-%d", "%m/%d/%Y", "%Y/%m/%d", "%d-%m-%Y">>

Directives(fmt) ==
    CASE fmt = "%Y-%m-%d" -> [sep |-> "-", order |-> <<"Y", "m", "d">>]
      [] fmt = "%m/%d/%Y" -> [sep |-> "/", order |-> <<"m", "d", "Y">>]
      [] fmt = "%Y/%m/%d" -> [sep |-> "/", order |-> <<"Y", "m", "d">>]
      [] fmt = "%d-%m-%Y" -> [sep |-> "-", order |-> <<"d", "m", "Y">>]

\* What a directive of strptime accepts: %Y exactly four digits, %m and %d
\* one or two digits within 1..12 and 1..31.
MatchesDirective(dir, fld) ==
    CASE dir = "Y" -> fld.w = 4
      [] dir = "m" -> fld.w \in {1, 2} /\ fld.v \in 1..12
      [] dir = "d" -> fld.w \in {1, 2} /\ fld.v \in 1..31

\* The date of the three fields taken by directive: ValueError when a
\* field is not what its directive accepts or they name no day of the
\* calendar (year 0 included).
date_of(by) ==
    IF /\ \A dir \in DOMAIN by : MatchesDirective(dir, by[dir])
       /\ by.Y.v >= 1
       /\ by.d.v <= DaysInMonth(by.Y.v, by.m.v)
    THEN Ok(DateObj(by.Y.v, by.m.v, by.d.v))
    ELSE Raise("time data does not match format")

strptime_as(s, spec) ==
    IF s.sep = spec.sep /\ Len(s.f) = 3
    THEN date_of([dir \in {"Y", "m", "d"} |->
                      s.f[CHOOSE i \in 1..3 : spec.order[i] = dir]])
    ELSE Raise("time data does not match format")

\* datetime.strptime(s, fmt): the date, or ValueError when the text does
\* not match the format.
strptime(s, fmt) == strptime_as(s, Directives(fmt))

\* The number of digits of a positive number.
RECURSIVE Digits(_)
Digits(n) == IF n < 10 THEN 1 ELSE 1 + Digits(n \div 10)

\* The C libraries under datetime.strftime: glibc writes %Y without
\* padding ("999"), the others pad the year to four digits ("0999").  The
\* one the process runs on is part of its state.
Platforms == {"glibc", "padding"}

VARIABLE platform

\* dt.strftime("%Y-%m-%d") on the platform the process runs on.
strftime(dt) ==
    Str("-", Field(IF platform = "glibc" THEN Digits(dt.y) ELSE 4, dt.y),
             Field(2, dt.m), Field(2, dt.d))

\* The date written in a format with every field at its full width.
Written(dt, fmt) ==
    LET spec == Directives(fmt)
        fld(dir) == CASE dir = "Y" -> Field(4, dt.y)
                      [] dir = "m" -> Field(2, dt.m)
                      [] dir = "d" -> Field(2, dt.d)
    IN  Str(spec.sep, fld(spec.order[1]), fld(spec.order[2]), fld(spec.order[3]))

Days == 1..MaxDay

\* The date strings the tools are called with: the first days of a month
\* in each of the formats, and a string in none of them.
DateStrings ==
    {Written(DateObj(2024, 1, d), DateFormats[i]) : d \in Days, i \in 1..Len(DateFormats)}
        \cup {Garbage}

\* The loop of format_date over the results of strptime for each format
\* in turn: the first that parsed is returned through strftime.
format_parsed(parsed) ==
    IF \A i \in DOMAIN parsed : ~parsed[i].ok
    THEN Raise("Invalid date format")
    ELSE Ok(strftime(parsed[CHOOSE i \in DOMAIN parsed :
                                /\ parsed[i].ok
                                /\ \A j \in 1..(i - 1) : ~parsed[j].ok].val))

format_date(date_input) ==
    IF date_input.type = "str"
    THEN format_parsed([i \in 1..Len(DateFormats) |->
                            strptime(date_input, DateFormats[i])])
    ELSE IF date_input.type = "date"
         THEN Ok(strftime(date_input))
         ELSE Raise("Invalid date format")

\* Lines 112-122 of validate_date_range, on the two normalised strings
\* parsed again: the comparison, and the warning for a span over 365 days.
validate_parsed(start, end, start_dt, end_dt) ==
    IF ~start_dt.ok THEN Raise(start_dt.exc)
    ELSE IF ~end_dt.ok THEN Raise(end_dt.exc)
    ELSE IF toordinal(start_dt.val) > toordinal(end_dt.val)
         THEN Raise("Start date must be before or equal to end date")
         ELSE [ok |-> TRUE, val |-> <<start, end>>, exc |-> None,
               warned |-> toordinal(end_dt.val) - toordinal(start_dt.val) > 365]

\* Lines 105-113: a failure of format_date is raised again as an invalid
\* range.
validate_formatted(s, e) ==
    IF ~s.ok \/ ~e.ok THEN Raise("Invalid date range")
    ELSE validate_parsed(s.val, e.val, strptime(s.val, "%Y-%m-%d"),
                         strptime(e.val, "%Y-%m-%d"))

validate_date_range(start_date, end_date) ==
    validate_formatted(format_date(start_date), format_date(end_date))

(***************************************************************************)
(* Python truthiness, as used by `if error:` and `if metadata:`: None and  *)
(* the empty string are falsy.  Metadata is carried as a tag: None or the  *)
(* non-empty mapping every caller passes.                                  *)
(***************************************************************************)
Truthy(v) == v # None /\ v # ""

SomeMetadata == "{...}"

\* The payloads: `data` is typed Any.  A list of n rows is <<1, ..., n>>, a
\* tuple likewise, a mapping is its set of keys; isinstance(data, list) holds
\* of the first only.
ListOf(n) == [type |-> "list", items |-> [i \in 1..n |-> i]]

TupleOf(n) == [type |-> "tuple", items |-> [i \in 1..n |-> i]]

DictOf(keys) == [type |-> "dict", items |-> keys]

len(data) ==
    IF data.type \in {"list", "tuple"}
    THEN Len(data.items) ELSE Cardinality(data.items)

\* The count taken as len(data) whatever the payload's type.
row_count_of_len(data) == len(data)

row_count_of(data) == IF data.type = "list" THEN len(data) ELSE 1

(***************************************************************************)
(* utils.create_tool_response and utils.format_response.  The envelope is  *)
(* a mapping; a key that the code does not set is not in its domain.       *)
(***************************************************************************)
create_tool_response(data, sql, params, metadata, error) ==
    LET response == [data |-> data, debug_sql |-> sql, timestamp |-> "now",
                     row_count |-> row_count_of(data)]
        withMeta == IF Truthy(metadata)
                    THEN response @@ [metadata |-> metadata] ELSE response
    IN  IF Truthy(error)
        THEN withMeta @@ [error |-> error, success |-> FALSE]
        ELSE withMeta @@ [success |-> TRUE]

format_response(success, data, debug_sql, metadata, error) ==
    LET response == [success |-> success, data |-> data,
                     debug_sql |-> debug_sql, timestamp |-> "now",
                     row_count |-> row_count_of(data)]
        withMeta == IF Truthy(metadata)
                    THEN response @@ [metadata |-> metadata] ELSE response
    IN  IF Truthy(error) THEN withMeta @@ [error |-> error] ELSE withMeta

(***************************************************************************)
(* The query executor (db.connection.execute_query, utils.execute_sql,     *)
(* the repository's query.all()).  What the database does with the i-th    *)
(* query of a call is an input of the call: it returns n rows or raises.   *)
(***************************************************************************)
MaxQueries == 2

Rows(n) == [exc |-> None, rows |-> n]

DbError(msg) == [exc |-> msg, rows |-> 0]

DbOutcomes == {Rows(n) : n \in 0..MaxRows} \cup {DbError(m) : m \in ExcMessages}

DbScripts == [1..MaxQueries -> DbOutcomes]

\* The scripts for a call that issues at most n queries: what the database
\* would do with a further query is immaterial and held fixed.
DbScriptsFor(n) ==
    {d \in DbScripts : \A i \in (n + 1)..MaxQueries : d[i] = Rows(0)}

execute_query(db, i) == db[i]

(***************************************************************************)
(* What a call of an implementation does: it returns a value or raises,    *)
(* after having called the executor `queries` times.                       *)
(***************************************************************************)
NoEnvelope == [raised |-> TRUE]

Returned(env, q) == [raised |-> FALSE, exc |-> None, env |-> env, queries |-> q]

Raised(msg, q) == [raised |-> TRUE, exc |-> msg, env |-> NoEnvelope, queries |-> q]

(***************************************************************************)
(* The keyword arguments of a call.  A parameter the tool does not take is *)
(* left at the default below.                                              *)
(***************************************************************************)
IsoDate(d) == Written(DateObj(2024, 1, d), "%Y-%m-%d")

DefaultArgs ==
    [start_date |-> IsoDate(1), end_date |-> IsoDate(1), group_by |-> {},
     interval |-> "daily", metric |-> "sales", item_id |-> None,
     description |-> None, rapidfuzz |-> TRUE, kept |-> 0]

GroupBys == {{}, {"date"}, {"date", "site"}, {"week"}, {"date", "week"}}

Intervals == {"daily", "Monthly", "yearly"}

Metrics == {"sales", "Quantity", "transactions", "profit"}

Descriptions == {None, "", "coke"}

lower(s) ==
    CASE s = "Monthly" -> "monthly"
      [] s = "Quantity" -> "quantity"
      [] OTHER -> s

(***************************************************************************)
(* The shape most date-range tools share (peak_hours.py is the plainest):  *)
(* validate_date_range before the try block, then one query inside it.     *)
(***************************************************************************)
range_query_impl(a, db, sql) ==
    LET v == validate_date_range(a.start_date, a.end_date)
        r == execute_query(db, 1)
    IN  IF ~v.ok THEN Raised(v.exc, 0)
        ELSE IF r.exc # None
             THEN Returned(create_tool_response(ListOf(0), sql, "params",
                                                None, r.exc), 1)
             ELSE Returned(create_tool_response(ListOf(r.rows), sql, "params",
                                                SomeMetadata, None), 1)

query_sales_realtime_impl(a, db) == range_query_impl(a, db, "query_sales_realtime")

cross_sell_opportunities_impl(a, db) == range_query_impl(a, db, "cross_sell")

hourly_sales_impl(a, db) == range_query_impl(a, db, "hourly_sales")

peak_hours_impl(a, db) == range_query_impl(a, db, "peak_hours")

daily_report_impl(a, db) == range_query_impl(a, db, "daily_report")

product_velocity_impl(a, db) == range_query_impl(a, db, "product_velocity")

basket_metrics_impl(a, db) == range_query_impl(a, db, "basket_metrics")

low_movement_impl(a, db) == range_query_impl(a, db, "low_movement")

\* sales_anomalies keeps the rows further than z_score (2.0) population
\* standard deviations from the mean; among n values none is further than
\* sqrt(n - 1) deviations away, so fewer than six rows hold no anomaly.
sales_anomalies_impl(a, db) ==
    LET v == validate_date_range(a.start_date, a.end_date)
        r == execute_query(db, 1)
    IN  IF ~v.ok THEN Raised(v.exc, 0)
        ELSE IF r.exc # None
             THEN Returned(create_tool_response(ListOf(0), "sales_anomalies",
                                                "params", None, r.exc), 1)
             ELSE Returned(create_tool_response(
                               ListOf(IF r.rows < 6 THEN 0 ELSE r.rows),
                               "sales_anomalies", "params", SomeMetadata, None), 1)

\* sales_gaps: every day of the range that is not among the returned days.
sales_gaps_impl(a, db) ==
    LET v == validate_date_range(a.start_date, a.end_date)
        r == execute_query(db, 1)
        span == toordinal(strptime(v.val[2], "%Y-%m-%d").val)
                    - toordinal(strptime(v.val[1], "%Y-%m-%d").val) + 1
        sold == IF r.rows < span THEN r.rows ELSE span
    IN  IF ~v.ok THEN Raised(v.exc, 0)
        ELSE IF r.exc # None
             THEN Returned(create_tool_response(ListOf(0), "sales_gaps",
                                                "params", None, r.exc), 1)
             ELSE Returned(create_tool_response(ListOf(span - sold), "sales_gaps",
                                                "params", SomeMetadata, None), 1)

\* The stub revisions return a hand-built dict.
stub_impl(name) ==
    Returned([success |-> FALSE, error |-> name, parameters |-> "{...}"], 0)

product_velocity_stub_impl(a, db) ==
    stub_impl("product_velocity tool not yet implemented")

basket_metrics_stub_impl(a, db) ==
    stub_impl("basket_metrics tool not yet implemented")

sales_anomalies_stub_impl(a, db) ==
    stub_impl("sales_anomalies tool not yet implemented")

low_movement_stub_impl(a, db) ==
    stub_impl("low_movement tool not yet implemented")

get_today_date_impl(a, db) == Returned([date |-> "today", success |-> TRUE], 0)

\* Tools without a date range: one query inside the try block.
lookup_query_impl(db, sql) ==
    LET r == execute_query(db, 1)
    IN  IF r.exc # None
        THEN Returned(create_tool_response(ListOf(0), sql, "params", None, r.exc), 1)
        ELSE Returned(create_tool_response(ListOf(r.rows), sql, "params",
                                           SomeMetadata, None), 1)

transaction_lookup_impl(a, db) == lookup_query_impl(db, "transaction_lookup")

site_lookup_impl(a, db) == lookup_query_impl(db, "site_lookup")

(***************************************************************************)
(* Tools with an enumerated parameter.                                     *)
(***************************************************************************)
interval_mapping == {"daily", "weekly", "monthly", "hourly"}

metric_mapping == {"sales", "quantity", "transactions"}

sales_trend_impl(a, db) ==
    LET v == validate_date_range(a.start_date, a.end_date)
        r == execute_query(db, 1)
    IN  IF ~v.ok THEN Raised(v.exc, 0)
        ELSE IF lower(a.interval) \notin interval_mapping
        THEN Returned(create_tool_response(ListOf(0), "", "[]", None,
                                           "Invalid interval"), 0)
        ELSE IF lower(a.metric) \notin metric_mapping
        THEN Returned(create_tool_response(ListOf(0), "", "[]", None,
                                           "Invalid metric"), 0)
        ELSE IF r.exc # None
        THEN Returned(create_tool_response(ListOf(0), "sales_trend", "params",
                                           None, r.exc), 1)
        ELSE Returned(create_tool_response(ListOf(r.rows), "sales_trend",
                                           "params", SomeMetadata, None), 1)

ALLOWED_GROUPS == {"date", "hour", "site", "category", "department", "dayofweek"}

sales_summary_impl(a, db) ==
    LET v == validate_date_range(a.start_date, a.end_date)
        illegal == a.group_by \ ALLOWED_GROUPS
        r == execute_query(db, 1)
    IN  IF ~v.ok THEN Raised(v.exc, 0)
        ELSE IF illegal # {} THEN Raised("Unsupported group_by value(s)", 0)
        ELSE IF r.exc # None
        THEN Returned(create_tool_response(ListOf(0), "sales_summary", "bind",
                                           None, r.exc), 1)
        ELSE Returned(create_tool_response(ListOf(r.rows), "sales_summary",
                                           "bind", SomeMetadata, None), 1)

\* SalesRepository.top_items: metric_map.get(metric, metric_map["sales"]); the
\* result names the metric column the query is ordered by, and what query.all()
\* does.
metric_map == {"sales", "quantity", "transactions"}

SalesRepository_top_items(metric, db) ==
    [metric_column |-> IF metric \in metric_map THEN metric ELSE "sales",
     outcome |-> execute_query(db, 1)]

top_items_impl(a, db) ==
    LET v == validate_date_range(a.start_date, a.end_date)
        q == SalesRepository_top_items(a.metric, db)
        r == q.outcome
    IN  IF ~v.ok THEN Raised(v.exc, 0)
        ELSE IF r.exc # None
        THEN Returned(create_tool_response(ListOf(0), "SalesRepository.top_items",
                                           "[]", None, r.exc), 1)
        ELSE Returned(create_tool_response(ListOf(r.rows),
                                           "SalesRepository.top_items", "[]",
                                           SomeMetadata, None), 1)

(***************************************************************************)
(* The basket tools: format_date on each end (no ordering check) while the *)
(* parameters are built, before the try block; format_response after.      *)
(***************************************************************************)
basket_query_impl(a, db, query) ==
    LET s == format_date(a.start_date)
        e == format_date(a.end_date)
        r == execute_query(db, 1)
    IN  IF ~s.ok THEN Raised(s.exc, 0)
        ELSE IF ~e.ok THEN Raised(e.exc, 0)
        ELSE IF r.exc # None
        THEN Returned(format_response(FALSE, ListOf(0), query, None, r.exc), 1)
        ELSE Returned(format_response(TRUE, ListOf(r.rows), query,
                                      SomeMetadata, None), 1)

basket_analysis_impl(a, db) == basket_query_impl(a, db, "basket_analysis")

item_correlation_impl(a, db) == basket_query_impl(a, db, "item_correlation")

(***************************************************************************)
(* year_over_year, in its two revisions: both run the current and the      *)
(* previous period's query; one has no try block around them.              *)
(***************************************************************************)
YoyKeys == {"current_period", "previous_period", "change"}

year_over_year_impl(a, db) ==
    LET v == validate_date_range(a.start_date, a.end_date)
        cur == execute_query(db, 1)
        prev == execute_query(db, 2)
    IN  IF ~v.ok THEN Raised(v.exc, 0)
        ELSE IF cur.exc # None
        THEN Returned(create_tool_response(DictOf({}), "year_over_year", "[]",
                                           None, cur.exc), 1)
        ELSE IF prev.exc # None
        THEN Returned(create_tool_response(DictOf({}), "year_over_year", "[]",
                                           None, prev.exc), 2)
        ELSE Returned(create_tool_response(DictOf(YoyKeys), "year_over_year",
                                           "params", SomeMetadata, None), 2)

year_over_year_unguarded_impl(a, db) ==
    LET v == validate_date_range(a.start_date, a.end_date)
        cur == execute_query(db, 1)
        prev == execute_query(db, 2)
    IN  IF ~v.ok THEN Raised(v.exc, 0)
        ELSE IF cur.exc # None THEN Raised(cur.exc, 1)
        ELSE IF prev.exc # None THEN Raised(prev.exc, 2)
        ELSE Returned(create_tool_response(
                          DictOf({"current_period", "previous_period",
                                  "sales_change"}),
                          "year_over_year", "params", SomeMetadata, None), 2)

\* sales_forecast: an empty frame is reported as an error; otherwise the
\* forecast has one record per history day and per day of the horizon.
Horizon == 7

sales_forecast_impl(a, db) ==
    LET v == validate_date_range(a.start_date, a.end_date)
        r == execute_query(db, 1)
    IN  IF ~v.ok THEN Raised(v.exc, 0)
        ELSE IF r.exc # None
        THEN Returned(create_tool_response(ListOf(0), "sales_forecast", "params",
                                           None, r.exc), 1)
        ELSE IF r.rows = 0
        THEN Returned(create_tool_response(ListOf(0), "sales_forecast", "params",
                                           None, "No data found"), 1)
        ELSE Returned(create_tool_response(ListOf(r.rows + Horizon),
                                           "sales_forecast", "params",
                                           SomeMetadata, None), 1)

(***************************************************************************)
(* item_lookup.  extract_size_and_product and extract_tokens give the      *)
(* query's components; "coke" has no size and one token, so the            *)
(* progressive search issues the exact query and the any-token query.      *)
(***************************************************************************)
extract_size_and_product(description) ==
    [original_query |-> description, product_name |-> description,
     size |-> None, size_variants |-> <<>>]

extract_tokens(text) == IF text = "" THEN <<>> ELSE <<text>>

build_progressive_queries(description, query_components) ==
    LET tokens == extract_tokens(query_components.product_name)
        sized == IF query_components.size # None
                    /\ query_components.product_name # ""
                 THEN [i \in 1..(IF Len(query_components.size_variants) < 3
                                 THEN Len(query_components.size_variants)
                                 ELSE 3) |-> "size_product_match"]
                 ELSE <<>>
        all == IF Len(tokens) > 1 THEN <<"product_tokens">> ELSE <<>>
        any == IF Len(tokens) > 0 THEN <<"any_token">> ELSE <<>>
    IN  <<"exact_query">> \o sized \o all \o any

Max(x, y) == IF x > y THEN x ELSE y

Min(x, y) == IF x < y THEN x ELSE y

\* The strategy loop: a failing strategy is recorded in the metadata and
\* skipped; every strategy's rows join the candidates.  Rows are the items
\* 1..n, so the rows of two strategies overlap.
RECURSIVE candidates_after(_, _, _)
candidates_after(queries, db, i) ==
    IF i > Len(queries) THEN 0
    ELSE Max(execute_query(db, i).rows, candidates_after(queries, db, i + 1))

item_lookup_impl(a, db) ==
    LET r == execute_query(db, 1)
        query_components == extract_size_and_product(a.description)
        progressive_queries ==
            build_progressive_queries(a.description, query_components)
        unique_candidates == candidates_after(progressive_queries, db, 1)
        scored_results == Min(a.kept, unique_candidates)
        n == Len(progressive_queries)
    IN  IF a.item_id # None
        THEN IF r.exc # None
             THEN Returned(create_tool_response(ListOf(0), "item_lookup",
                                                "params", None, r.exc), 1)
             ELSE Returned(create_tool_response(ListOf(Min(r.rows, 1)),
                                                "item_lookup", "params",
                                                SomeMetadata, None), 1)
        ELSE IF ~Truthy(a.description)
        THEN Returned(create_tool_response(
                          ListOf(0), "item_lookup", "[]", None,
                          "Either item_id or description is required"), 0)
        ELSE IF ~a.rapidfuzz
        THEN IF r.exc # None
             THEN Returned(create_tool_response(ListOf(0), "item_lookup",
                                                "params", None, r.exc), 1)
             ELSE Returned(create_tool_response(ListOf(r.rows), "item_lookup",
                                                "params", SomeMetadata, None), 1)
        ELSE IF unique_candidates = 0
        THEN Returned(create_tool_response(ListOf(0), "item_lookup", "[]",
                                           SomeMetadata, None), n)
        ELSE Returned(create_tool_response(ListOf(scored_results), "item_lookup",
                                           "[]", SomeMetadata, None), n)

(***************************************************************************)
(* The implementations by identifier.  A module that holds two revisions   *)
(* of its implementation contributes both.                                 *)
(***************************************************************************)
RangeImpls ==
    {"query_sales_realtime", "cross_sell_opportunities", "hourly_sales",
     "peak_hours", "daily_report", "product_velocity", "basket_metrics",
     "low_movement", "sales_anomalies", "sales_gaps", "sales_forecast",
     "basket_analysis", "item_correlation"}

StubImpls ==
    {"product_velocity/stub", "basket_metrics/stub", "sales_anomalies/stub",
     "low_movement/stub"}

PlainImpls == StubImpls \cup {"transaction_lookup", "site_lookup", "get_today_date"}

YoyImpls == {"year_over_year", "year_over_year/unguarded"}

Impls ==
    RangeImpls \cup PlainImpls \cup YoyImpls
        \cup {"sales_trend", "sales_summary", "top_items", "item_lookup"}

Impl(id, a, db) ==
    CASE id = "query_sales_realtime" -> query_sales_realtime_impl(a, db)
      [] id = "sales_summary" -> sales_summary_impl(a, db)
      [] id = "sales_trend" -> sales_trend_impl(a, db)
      [] id = "top_items" -> top_items_impl(a, db)
      [] id = "basket_analysis" -> basket_analysis_impl(a, db)
      [] id = "item_correlation" -> item_correlation_impl(a, db)
      [] id = "cross_sell_opportunities" -> cross_sell_opportunities_impl(a, db)
      [] id = "basket_metrics" -> basket_metrics_impl(a, db)
      [] id = "basket_metrics/stub" -> basket_metrics_stub_impl(a, db)
      [] id = "transaction_lookup" -> transaction_lookup_impl(a, db)
      [] id = "daily_report" -> daily_report_impl(a, db)
      [] id = "hourly_sales" -> hourly_sales_impl(a, db)
      [] id = "peak_hours" -> peak_hours_impl(a, db)
      [] id = "sales_anomalies" -> sales_anomalies_impl(a, db)
      [] id = "sales_anomalies/stub" -> sales_anomalies_stub_impl(a, db)
      [] id = "product_velocity" -> product_velocity_impl(a, db)
      [] id = "product_velocity/stub" -> product_velocity_stub_impl(a, db)
      [] id = "low_movement" -> low_movement_impl(a, db)
      [] id = "low_movement/stub" -> low_movement_stub_impl(a, db)
      [] id = "sales_gaps" -> sales_gaps_impl(a, db)
      [] id = "year_over_year" -> year_over_year_impl(a, db)
      [] id = "year_over_year/unguarded" -> year_over_year_unguarded_impl(a, db)
      [] id = "sales_forecast" -> sales_forecast_impl(a, db)
      [] id = "item_lookup" -> item_lookup_impl(a, db)
      [] id = "site_lookup" -> site_lookup_impl(a, db)
      [] id = "get_today_date" -> get_today_date_impl(a, db)

\* The name a revision's Tool object carries.
ToolName(id) ==
    CASE id = "basket_metrics/stub" -> "basket_metrics"
      [] id = "sales_anomalies/stub" -> "sales_anomalies"
      [] id = "product_velocity/stub" -> "product_velocity"
      [] id = "low_movement/stub" -> "low_movement"
      [] id = "year_over_year/unguarded" -> "year_over_year"
      [] OTHER -> id

(***************************************************************************)
(* The tool lists of the front ends.                                       *)
(***************************************************************************)
TOOLS ==
    <<"query_sales_realtime", "sales_summary", "sales_trend", "top_items",
      "basket_analysis", "item_correlation", "cross_sell_opportunities",
      "basket_metrics", "transaction_lookup", "daily_report", "hourly_sales",
      "peak_hours", "sales_anomalies", "product_velocity", "low_movement",
      "sales_gaps", "year_over_year", "sales_forecast", "item_lookup",
      "site_lookup", "get_today_date">>

mcp_server_tools ==
    <<"query_sales_realtime", "sales_summary", "sales_trend", "top_items",
      "basket_analysis", "item_correlation", "cross_sell_opportunities",
      "hourly_sales", "sales_gaps", "year_over_year", "item_lookup",
      "site_lookup", "get_today_date">>

\* server.py's list with cross_sell_tool bound to the Tool object that
\* cross_sell_opportunities_tool names.
server_tools_aliased ==
    <<"query_sales_realtime", "sales_summary", "sales_trend", "top_items",
      "basket_analysis", "item_correlation", "basket_metrics",
      "cross_sell_opportunities", "hourly_sales", "peak_hours",
      "product_velocity", "sales_anomalies", "cross_sell_opportunities">>

\* server.py also lists cross_sell_tool, a name cross_sell.py does not define.
server_tools ==
    <<"query_sales_realtime", "sales_summary", "sales_trend", "top_items",
      "basket_analysis", "item_correlation", "basket_metrics", "cross_sell",
      "hourly_sales", "peak_hours", "product_velocity", "sales_anomalies",
      "cross_sell_opportunities">>

fastapi_TOOLS ==
    <<"query_sales_realtime", "sales_summary", "sales_trend", "top_items",
      "basket_analysis", "item_correlation", "cross_sell_opportunities">>

\* What is left of the third create_app's list.
fastapi_tools_tail ==
    <<"basket_metrics", "cross_sell_opportunities", "hourly_sales",
      "peak_hours", "product_velocity", "sales_anomalies">>

\* create_server attaches tool_list.TOOLS to the server object ...
create_server_tools == TOOLS

\* ... and its list_tools handler returns the list built after that.
create_server_list_tools == mcp_server_tools

main_list_tools == server_tools

\* GET /tools of the three create_app definitions.
create_app_list_tools(rev) ==
    IF rev = 3 THEN fastapi_tools_tail ELSE fastapi_TOOLS

Names(tools) == {tools[i] : i \in 1..Len(tools)}

\* tool_map = {t.name: t for t in tools}
tool_map(tools) == Names(tools)

\* The names whose Tool object gets `_implementation` assigned in its module.
SourceBound == {ToolName(id) : id \in Impls}

(***************************************************************************)
(* The call-tool handlers.  A response records whether the handler raised, *)
(* the HTTP status (0 on the stdio transport), what the returned content   *)
(* is, whether an implementation ran and what it did.                      *)
(***************************************************************************)
NoResult == [raised |-> FALSE, exc |-> None, env |-> NoEnvelope, queries |-> 0]

Resp(raised, status, kind, invoked, result) ==
    [raised |-> raised, status |-> status, kind |-> kind, invoked |-> invoked,
     result |-> result]

\* call_tool indexing tool_map without the membership test: KeyError.
create_server_call_tool_unchecked(name, a, db, bound, id) ==
    IF name \notin tool_map(mcp_server_tools)
    THEN Resp(TRUE, 0, "unhandled", FALSE, NoResult)
    ELSE IF name \notin bound
    THEN Resp(FALSE, 0, "exception_text", FALSE, NoResult)
    ELSE LET result == Impl(id, a, db)
         IN  IF result.raised THEN Resp(FALSE, 0, "exception_text", TRUE, result)
             ELSE Resp(FALSE, 0, "result", TRUE, result)

\* mcp_server.create_server.call_tool
create_server_call_tool(name, a, db, bound, id) ==
    IF name \notin tool_map(mcp_server_tools)
    THEN Resp(FALSE, 0, "unknown_tool", FALSE, NoResult)
    ELSE IF name \notin bound
    THEN Resp(FALSE, 0, "no_implementation", FALSE, NoResult)
    ELSE LET result == Impl(id, a, db)
         IN  IF result.raised THEN Resp(FALSE, 0, "exception_text", TRUE, result)
             ELSE Resp(FALSE, 0, "result", TRUE, result)

\* server.main.call_tool
main_call_tool(name, a, db, bound, id) ==
    IF name \notin tool_map(server_tools)
    THEN Resp(FALSE, 0, "unknown_tool", FALSE, NoResult)
    ELSE IF name \in bound
    THEN LET result == Impl(id, a, db)
         IN  IF result.raised THEN Resp(FALSE, 0, "exception_text", TRUE, result)
             ELSE Resp(FALSE, 0, "result", TRUE, result)
    ELSE Resp(FALSE, 0, "no_implementation", FALSE, NoResult)

\* fastapi_server.create_app.call_tool, first definition: HTTPException.
create_app_call_tool_1(name, a, db, bound, id) ==
    IF name \notin tool_map(fastapi_TOOLS)
    THEN Resp(FALSE, 404, "unknown_tool", FALSE, NoResult)
    ELSE IF name \notin bound
    THEN Resp(FALSE, 500, "no_implementation", FALSE, NoResult)
    ELSE LET result == Impl(id, a, db)
         IN  IF result.raised THEN Resp(FALSE, 500, "exception_text", TRUE, result)
             ELSE Resp(FALSE, 200, "result", TRUE, result)

\* second definition: every outcome is a returned text block.
create_app_call_tool_2(name, a, db, bound, id) ==
    IF name \notin tool_map(fastapi_TOOLS)
    THEN Resp(FALSE, 200, "unknown_tool", FALSE, NoResult)
    ELSE IF name \notin bound
    THEN Resp(FALSE, 200, "no_implementation", FALSE, NoResult)
    ELSE LET result == Impl(id, a, db)
         IN  IF result.raised THEN Resp(FALSE, 200, "exception_text", TRUE, result)
             ELSE Resp(FALSE, 200, "result", TRUE, result)

\* third definition: HTTPException, and no try block around the call.
create_app_call_tool_3(name, a, db, bound, id) ==
    IF name \notin tool_map(fastapi_tools_tail)
    THEN Resp(FALSE, 404, "unknown_tool", FALSE, NoResult)
    ELSE IF name \notin bound
    THEN Resp(FALSE, 500, "no_implementation", FALSE, NoResult)
    ELSE LET result == Impl(id, a, db)
         IN  IF result.raised THEN Resp(TRUE, 500, "unhandled", TRUE, result)
             ELSE Resp(FALSE, 200, "result", TRUE, result)

\* The routes create_app registers, in each of its definitions.
\* A path is written without its leading slash.
create_app_routes == {<<"GET", "tools">>, <<"POST", "call">>}

\* A request for a method and path: the router answers 404 for a path no
\* route was registered for and runs no handler.
create_app_post(path, extra, a, db, bound, id) ==
    IF <<"POST", path>> \notin create_app_routes
    THEN Resp(FALSE, 404, "no_route", FALSE, NoResult)
    ELSE Resp(FALSE, 422, "no_body", FALSE, NoResult)

(***************************************************************************)
(* State.  Of the front ends and tools: the registry binding established   *)
(* at start-up, the request being served and its response.  Of the         *)
(* connection providers: the list of idle connections, the connection      *)
(* objects and the callers.  Of a process starting up: its environment and *)
(* how far it got.  Of the helpers of utils.py: the call being made.       *)
(***************************************************************************)
VARIABLES pc, implemented, request, response, built, listed,
          pool, conns, callers, inflight,
          environ, proc,
          call

toolvars == <<pc, implemented, request, response, built, listed>>

dbvars == <<pool, conns, callers, inflight>>

startvars == <<environ, proc>>

utilvars == <<call, platform>>

vars == <<toolvars, dbvars, startvars, utilvars>>

Request(frontend, name, a, db) ==
    [frontend |-> frontend, name |-> name, arguments |-> a, db |-> db]

NoRequest == Request("none", "none", DefaultArgs, [i \in 1..MaxQueries |-> Rows(0)])

NoResponse == Resp(FALSE, 0, "none", FALSE, NoResult)

\* `built` holds the arguments and the result of a call of an envelope builder.
Built(fn, success, data, metadata, error, env) ==
    [fn |-> fn, success |-> success, data |-> data, metadata |-> metadata,
     error |-> error, env |-> env]

NoBuilt == Built("none", TRUE, ListOf(0), None, None, NoEnvelope)

\* `listed` holds what a list-tools call returned and, for create_server,
\* the list attached to the server object as server.tools.
Listed(attached, returned) == [attached |-> attached, returned |-> returned]

NoListed == Listed(<<>>, <<>>)

\* Every implementation module binds its Tool object; the Tool objects the
\* dispatcher tests register carry no `_implementation`.
InitTools ==
    /\ pc = "idle"
    /\ implemented \in {SourceBound, {}}
    /\ request = NoRequest
    /\ response = NoResponse
    /\ built = NoBuilt
    /\ listed = NoListed

Serve(req, resp) ==
    /\ pc' = "done"
    /\ request' = req
    /\ response' = resp
    /\ UNCHANGED <<implemented, built, listed>>
    /\ UNCHANGED <<dbvars, startvars, utilvars>>

\* A direct call of an implementation, as a per-tool front end makes it.
Direct(id, a, db) ==
    LET result == Impl(id, a, db)
    IN  Serve(Request("impl", id, a, db),
              Resp(result.raised, 0, "result", TRUE, result))

CallRangeTool ==
    /\ pc = "idle"
    /\ implemented = SourceBound
    /\ \E id \in RangeImpls, s \in DateStrings, e \in DateStrings, db \in DbScriptsFor(1) :
        Direct(id, [DefaultArgs EXCEPT !.start_date = s, !.end_date = e], db)

CallPlainTool ==
    /\ pc = "idle"
    /\ implemented = SourceBound
    /\ \E id \in PlainImpls, db \in DbScriptsFor(1) : Direct(id, DefaultArgs, db)

CallSalesTrend ==
    /\ pc = "idle"
    /\ implemented = SourceBound
    /\ \E s \in DateStrings, e \in DateStrings, i \in Intervals, m \in Metrics,
       db \in DbScriptsFor(1) :
        Direct("sales_trend",
               [DefaultArgs EXCEPT !.start_date = s, !.end_date = e,
                                   !.interval = i, !.metric = m], db)

CallSalesSummary ==
    /\ pc = "idle"
    /\ implemented = SourceBound
    /\ \E s \in DateStrings, e \in DateStrings, g \in GroupBys, db \in DbScriptsFor(1) :
        Direct("sales_summary",
               [DefaultArgs EXCEPT !.start_date = s, !.end_date = e,
                                   !.group_by = g], db)

CallTopItems ==
    /\ pc = "idle"
    /\ implemented = SourceBound
    /\ \E s \in DateStrings, e \in DateStrings, m \in Metrics, db \in DbScriptsFor(1) :
        Direct("top_items",
               [DefaultArgs EXCEPT !.start_date = s, !.end_date = e,
                                   !.metric = m], db)

CallYearOverYear ==
    /\ pc = "idle"
    /\ implemented = SourceBound
    /\ \E id \in YoyImpls, s \in DateStrings, e \in DateStrings, db \in DbScriptsFor(2) :
        Direct(id, [DefaultArgs EXCEPT !.start_date = s, !.end_date = e], db)

CallItemLookup ==
    /\ pc = "idle"
    /\ implemented = SourceBound
    /\ \E i \in {None, "1"}, d \in Descriptions, f \in BOOLEAN, k \in 0..MaxRows,
       db \in DbScriptsFor(2) :
        Direct("item_lookup",
               [DefaultArgs EXCEPT !.item_id = i, !.description = d,
                                   !.rapidfuzz = f, !.kept = k], db)

\* Requests that go through a dispatcher: a registered or unregistered name,
\* a few argument sets, and the revision of the module bound under the name.
DispatchNames == Names(TOOLS) \cup Names(server_tools) \cup {"no_such_tool"}

DispatchArgs ==
    {DefaultArgs,
     [DefaultArgs EXCEPT !.start_date = Garbage],
     [DefaultArgs EXCEPT !.item_id = "1"]}

RevisionsOf(name) ==
    IF \E id \in Impls : ToolName(id) = name
    THEN {id \in Impls : ToolName(id) = name}
    ELSE {"none"}

McpCallTool ==
    /\ pc = "idle"
    /\ \E name \in DispatchNames, a \in DispatchArgs, db \in DbScriptsFor(1) :
        \E id \in RevisionsOf(name) :
            Serve(Request("mcp_server", name, a, db),
                  create_server_call_tool(name, a, db, implemented, id))

ServerCallTool ==
    /\ pc = "idle"
    /\ \E name \in DispatchNames, a \in DispatchArgs, db \in DbScriptsFor(1) :
        \E id \in RevisionsOf(name) :
            Serve(Request("server", name, a, db),
                  main_call_tool(name, a, db, implemented, id))

HttpCall1 ==
    /\ pc = "idle"
    /\ \E name \in DispatchNames, a \in DispatchArgs, db \in DbScriptsFor(1) :
        \E id \in RevisionsOf(name) :
            Serve(Request("fastapi/call/1", name, a, db),
                  create_app_call_tool_1(name, a, db, implemented, id))

HttpCall2 ==
    /\ pc = "idle"
    /\ \E name \in DispatchNames, a \in DispatchArgs, db \in DbScriptsFor(1) :
        \E id \in RevisionsOf(name) :
            Serve(Request("fastapi/call/2", name, a, db),
                  create_app_call_tool_2(name, a, db, implemented, id))

HttpCall3 ==
    /\ pc = "idle"
    /\ \E name \in DispatchNames, a \in DispatchArgs, db \in DbScriptsFor(1) :
        \E id \in RevisionsOf(name) :
            Serve(Request("fastapi/call/3", name, a, db),
                  create_app_call_tool_3(name, a, db, implemented, id))

\* POST /<tool_name> with the arguments object as body; `extra` says that the
\* body has a field the tool's schema does not declare.
HttpPostTool ==
    /\ pc = "idle"
    /\ \E name \in Names(TOOLS), extra \in BOOLEAN, a \in DispatchArgs,
       db \in DbScriptsFor(1) :
        \E id \in RevisionsOf(name) :
            Serve(Request(IF extra THEN "fastapi/tool/extra" ELSE "fastapi/tool",
                          name, a, db),
                  create_app_post(name, extra, a, db, implemented, id))

\* A list-tools call: the handler returns its list, whatever the call.
ListTools(frontend, status, attached, returned) ==
    /\ pc' = "done"
    /\ request' = Request(frontend, "none", DefaultArgs, NoRequest.db)
    /\ response' = Resp(FALSE, status, "tools", FALSE, NoResult)
    /\ listed' = Listed(attached, returned)
    /\ UNCHANGED <<implemented, built>>
    /\ UNCHANGED <<dbvars, startvars, utilvars>>

McpListTools ==
    /\ pc = "idle"
    /\ ListTools("mcp_server/list_tools", 0, create_server_tools,
                 create_server_list_tools)

ServerListTools ==
    /\ pc = "idle"
    /\ ListTools("server/list_tools", 0, <<>>, main_list_tools)

HttpGetTools ==
    /\ pc = "idle"
    /\ \E rev \in 1..3 :
        ListTools("fastapi/tools", 200, <<>>, create_app_list_tools(rev))

\* The builders on their own.  The tools pass them row lists and
\* year_over_year's mapping; the signature (data: Any) takes a tuple too.
\* The error is None, a literal message, or str(exc).
Payloads ==
    {ListOf(n) : n \in 0..MaxRows} \cup {TupleOf(n) : n \in 0..MaxRows}
        \cup {DictOf({}), DictOf(YoyKeys)}

Metadatas == {None, SomeMetadata}

Errors == {None, "No data found"} \cup ExcMessages

BuildToolResponse ==
    /\ pc = "idle"
    /\ \E data \in Payloads, metadata \in Metadatas, error \in Errors :
        built' = Built("create_tool_response", TRUE, data, metadata, error,
                       create_tool_response(data, "sql", "params", metadata, error))
    /\ pc' = "done"
    /\ UNCHANGED <<implemented, request, response, listed>>
    /\ UNCHANGED <<dbvars, startvars, utilvars>>

BuildFormatResponse ==
    /\ pc = "idle"
    /\ \E success \in BOOLEAN, data \in Payloads, metadata \in Metadatas,
          error \in Errors :
        built' = Built("format_response", success, data, metadata, error,
                       format_response(success, data, "sql", metadata, error))
    /\ pc' = "done"
    /\ UNCHANGED <<implemented, request, response, listed>>
    /\ UNCHANGED <<dbvars, startvars, utilvars>>

Done ==
    /\ pc = "done"
    /\ pc' = "idle"
    /\ request' = NoRequest
    /\ response' = NoResponse
    /\ built' = NoBuilt
    /\ listed' = NoListed
    /\ UNCHANGED implemented
    /\ UNCHANGED <<dbvars, startvars, utilvars>>

(***************************************************************************)
(* db.connection.get_connection and db.session.get_db / get_session.       *)
(* _connection_pool is a module-level list used without a lock, so callers *)
(* are taken to run concurrently, one statement that touches the list at a *)
(* time.  A connection is "open", "dead" (an open handle whose cursor      *)
(* raises) or "closed" (not open: closed, or not made yet).  A connection  *)
(* object is named by the place that refers to it: its position in the     *)
(* list, or the caller whose local `conn` took it out of the list or made  *)
(* it.  Besides the callers followed step by step, `inflight` further      *)
(* requests are inside execute_query, each holding an open connection of   *)
(* its own.                                                                *)
(***************************************************************************)
MaxCallers == 2
MaxInflight == 4
MaxDead == 1

MAX_POOL_SIZE == 5

Callers == 1..MaxCallers

\* The list can outgrow MAX_POOL_SIZE by the callers that race to append.
Slots == 1..(MAX_POOL_SIZE + MaxCallers)

Local(t) == MAX_POOL_SIZE + MaxCallers + t

ConnIds == Slots \cup {Local(t) : t \in Callers}

Providers == {"get_connection", "get_db", "get_session"}

\* A caller: where it is, the provider it uses, its local `conn` (0 is
\* None), the exception in flight, how the body of the scope ended, whether
\* commit and rollback were called on its connection or session, the
\* state of its session, and how the liveness test of the connection it
\* took from the list went (kept until its body runs).
IdleCaller ==
    [pc |-> "idle", via |-> "get_connection", conn |-> 0, exc |-> None,
     body |-> "none", committed |-> FALSE, rolled_back |-> FALSE,
     session |-> "none", probe |-> "none"]

InitDb ==
    /\ pool = <<>>
    /\ conns = [c \in ConnIds |-> "closed"]
    /\ callers = [t \in Callers |-> IdleCaller]
    /\ inflight = 0

IsOpen(c) == conns[c] \in {"open", "dead"}

Pooled == {pool[i] : i \in 1..Len(pool)}

Held == {callers[t].conn : t \in Callers} \ {0}

Step(t, rec) == callers' = [callers EXCEPT ![t] = rec]

\* A call enters the scope.  get_connection: conn = None, then
\* `if _connection_pool:`.  get_db, get_session: db = SessionLocal().
Enter(t) ==
    /\ callers[t].pc = "idle"
    /\ \E via \in Providers :
        Step(t, IF via = "get_connection"
                THEN [IdleCaller EXCEPT !.pc = IF pool # <<>> THEN "pop" ELSE "connect"]
                ELSE [IdleCaller EXCEPT !.pc = "yield", !.via = via,
                                        !.session = "open"])
    /\ UNCHANGED <<pool, conns, inflight>>
    /\ UNCHANGED <<toolvars, startvars, utilvars>>

\* pop() that leaves the connection in the list.
Pop_keeping(t) ==
    /\ callers[t].pc = "pop"
    /\ IF pool = <<>>
       THEN Step(t, [callers[t] EXCEPT !.pc = "finally", !.exc = "IndexError"])
       ELSE Step(t, [callers[t] EXCEPT !.pc = "test", !.conn = pool[Len(pool)]])
    /\ UNCHANGED <<pool, conns, inflight>>
    /\ UNCHANGED <<toolvars, startvars, utilvars>>

\* conn = _connection_pool.pop(); IndexError when another caller emptied
\* the list since the test (except: log and raise; then the finally clause).
Pop(t) ==
    /\ callers[t].pc = "pop"
    /\ IF pool = <<>>
       THEN /\ Step(t, [callers[t] EXCEPT !.pc = "finally", !.exc = "IndexError"])
            /\ UNCHANGED <<pool, conns>>
       ELSE /\ Step(t, [callers[t] EXCEPT !.pc = "test", !.conn = Local(t)])
            /\ pool' = SubSeq(pool, 1, Len(pool) - 1)
            /\ conns' = [conns EXCEPT ![Local(t)] = conns[pool[Len(pool)]],
                                      ![pool[Len(pool)]] = "closed"]
    /\ UNCHANGED inflight
    /\ UNCHANGED <<toolvars, startvars, utilvars>>

\* The liveness test with its except clause left out: the connection is
\* used whatever the test showed.
TestAlive_trusting(t) ==
    /\ callers[t].pc = "test"
    /\ Step(t, [callers[t] EXCEPT
                    !.pc = "yield",
                    !.probe = IF conns[callers[t].conn] = "open"
                              THEN "passed" ELSE "failed"])
    /\ UNCHANGED <<pool, conns, inflight>>
    /\ UNCHANGED <<toolvars, startvars, utilvars>>

\* The liveness test of a pooled connection: cursor(), execute("SELECT 1"),
\* close(); on any exception conn.close() and conn = None.
TestAlive(t) ==
    /\ callers[t].pc = "test"
    /\ IF conns[callers[t].conn] = "open"
       THEN /\ Step(t, [callers[t] EXCEPT !.pc = "yield", !.probe = "passed"])
            /\ UNCHANGED conns
       ELSE /\ Step(t, [callers[t] EXCEPT !.pc = "connect", !.conn = 0,
                                         !.probe = "failed"])
            /\ conns' = [conns EXCEPT ![callers[t].conn] = "closed"]
    /\ UNCHANGED <<pool, inflight>>
    /\ UNCHANGED <<toolvars, startvars, utilvars>>

\* if conn is None: conn = pyodbc.connect(...); conn.autocommit = False.
\* connect raises when the server refuses (except: log and raise).
Connect(t) ==
    /\ callers[t].pc = "connect"
    /\ \/ /\ Step(t, [callers[t] EXCEPT !.pc = "finally", !.exc = "connect failed"])
          /\ UNCHANGED conns
       \/ /\ Step(t, [callers[t] EXCEPT !.pc = "yield", !.conn = Local(t)])
          /\ conns' = [conns EXCEPT ![Local(t)] = "open"]
    /\ UNCHANGED <<pool, inflight>>
    /\ UNCHANGED <<toolvars, startvars, utilvars>>

\* The body of the scope (execute_query: cursor, execute, fetchall, the
\* conversion of the rows; a tool's use of its session).  It completes, or
\* the query or the reading of the rows raises.  get_connection logs and
\* re-raises; top_items turns what its body raises into an envelope.
Body(t) ==
    /\ callers[t].pc = "yield"
    /\ \E outcome \in {"ok", "query raised", "rows raised"} :
        Step(t, IF outcome = "ok"
                THEN [callers[t] EXCEPT
                        !.body = "ok",
                        !.probe = "none",
                        !.pc = IF callers[t].via = "get_connection"
                               THEN "return" ELSE "finally"]
                ELSE [callers[t] EXCEPT
                        !.body = outcome,
                        !.probe = "none",
                        !.exc = IF callers[t].via = "get_session"
                                THEN None ELSE outcome,
                        !.pc = "finally"])
    /\ UNCHANGED <<pool, conns, inflight>>
    /\ UNCHANGED <<toolvars, startvars, utilvars>>

\* if len(_connection_pool) < MAX_POOL_SIZE:
CheckRoom(t) ==
    /\ callers[t].pc = "return"
    /\ Step(t, [callers[t] EXCEPT
                    !.pc = IF Len(pool) < MAX_POOL_SIZE THEN "append" ELSE "finally"])
    /\ UNCHANGED <<pool, conns, inflight>>
    /\ UNCHANGED <<toolvars, startvars, utilvars>>

\* _connection_pool.append(conn); conn = None
ReturnToPool(t) ==
    /\ callers[t].pc = "append"
    /\ Len(pool) + 1 \in Slots
    /\ pool' = Append(pool, Len(pool) + 1)
    /\ conns' = [conns EXCEPT ![Len(pool) + 1] = conns[callers[t].conn],
                              ![callers[t].conn] = "closed"]
    /\ Step(t, [callers[t] EXCEPT !.pc = "finally", !.conn = 0])
    /\ UNCHANGED inflight
    /\ UNCHANGED <<toolvars, startvars, utilvars>>

\* The finally clause without its close().
Finally_without_close(t) ==
    /\ callers[t].pc = "finally"
    /\ Step(t, [callers[t] EXCEPT !.pc = "done", !.conn = 0])
    /\ UNCHANGED <<pool, conns, inflight>>
    /\ UNCHANGED <<toolvars, startvars, utilvars>>

\* finally: if conn: conn.close()  (get_connection);  db.close()  (get_db);
\* session.close()  (top_items_impl).  The frame's `conn` is gone after it.
Finally(t) ==
    /\ callers[t].pc = "finally"
    /\ IF callers[t].via = "get_connection"
       THEN /\ Step(t, [callers[t] EXCEPT !.pc = "done", !.conn = 0])
            /\ IF callers[t].conn # 0
               THEN conns' = [conns EXCEPT ![callers[t].conn] = "closed"]
               ELSE UNCHANGED conns
       ELSE /\ Step(t, [callers[t] EXCEPT !.pc = "done", !.session = "closed"])
            /\ UNCHANGED conns
    /\ UNCHANGED <<pool, inflight>>
    /\ UNCHANGED <<toolvars, startvars, utilvars>>

\* The caller has its result; the next call starts afresh.
Leave(t) ==
    /\ callers[t].pc = "done"
    /\ Step(t, IdleCaller)
    /\ UNCHANGED <<pool, conns, inflight>>
    /\ UNCHANGED <<toolvars, startvars, utilvars>>

\* The server drops a connection that sits idle in the pool.
ConnectionDies ==
    /\ Cardinality({c \in ConnIds : conns[c] = "dead"}) < MaxDead
    /\ \E i \in 1..Len(pool) :
        /\ conns[pool[i]] = "open"
        /\ conns' = [conns EXCEPT ![pool[i]] = "dead"]
    /\ UNCHANGED <<pool, callers, inflight>>
    /\ UNCHANGED <<toolvars, startvars, utilvars>>

\* A further request goes through get_connection up to the yield without
\* being interleaved: it takes the last connection of the list (and
\* replaces it if it is dead) or connects.
OtherArrives ==
    /\ inflight < MaxInflight
    /\ inflight' = inflight + 1
    /\ IF pool # <<>>
       THEN /\ pool' = SubSeq(pool, 1, Len(pool) - 1)
            /\ conns' = [conns EXCEPT ![pool[Len(pool)]] = "closed"]
       ELSE UNCHANGED <<pool, conns>>
    /\ UNCHANGED callers
    /\ UNCHANGED <<toolvars, startvars, utilvars>>

\* Such a request leaves the scope: its connection goes back to the list if
\* its body did not raise and there is room, and is closed otherwise.
OtherLeaves ==
    /\ inflight > 0
    /\ inflight' = inflight - 1
    /\ \E raised \in BOOLEAN :
        IF ~raised /\ Len(pool) < MAX_POOL_SIZE
        THEN /\ pool' = Append(pool, Len(pool) + 1)
             /\ conns' = [conns EXCEPT ![Len(pool) + 1] = "open"]
        ELSE UNCHANGED <<pool, conns>>
    /\ UNCHANGED callers
    /\ UNCHANGED <<toolvars, startvars, utilvars>>

\* The connections that are open, whoever holds them.
OpenConnections == Cardinality({c \in ConnIds : IsOpen(c)}) + inflight

(***************************************************************************)
(* Start-up.  A front end is started in an environment and executes its    *)
(* imports in order; a tool module brings in the database module it uses.  *)
(* db/connection.py reads its settings and checks nothing; db/session.py   *)
(* imports db/engine.py, whose module-level code checks the credentials.   *)
(***************************************************************************)
EnvNames == {"DATABASE_URL", "DB_USERNAME", "DB_PASSWORD", "DB_SERVER", "DB_DATABASE"}

\* A variable is unset (None), set to the empty string, or set to a value.
EnvValues == {None, "", "value"}

Environments == [EnvNames -> EnvValues]

FullEnvironment == [n \in EnvNames |-> IF n = "DATABASE_URL" THEN None ELSE "value"]

getenv(name) == environ[name]

getenv_default(name, default) == IF environ[name] = None THEN default ELSE environ[name]

\* engine.py without the test of lines 26-38.
engine_py_unchecked == Ok("engine")

\* The module-level code of db/engine.py: DATABASE_URL is taken as it is,
\* else the four settings must all be there and ValueError names the ones
\* that are not.
engine_py ==
    LET required == <<"DB_USERNAME", "DB_PASSWORD", "DB_SERVER", "DB_DATABASE">>
        IsMissing(n) == ~Truthy(getenv(n))
        missing == SelectSeq(required, IsMissing)
    IN  IF Truthy(getenv("DATABASE_URL")) THEN Ok("engine")
        ELSE IF missing # <<>>
             THEN Raise([type |-> "ValueError", names |-> missing])
             ELSE Ok("engine")

\* The settings db/connection.py reads at import: the database has a
\* default, nothing is checked.
DB_CONFIG ==
    [server |-> getenv("DB_SERVER"),
     database |-> getenv_default("DB_DATABASE", "PDI_Warehouse_1539_01"),
     username |-> getenv("DB_USERNAME"),
     password |-> getenv("DB_PASSWORD")]

\* pyodbc.connect(get_connection_string()) cannot succeed with a server,
\* a user or a password that was never given.
connect_can_succeed ==
    \A k \in {"server", "username", "password"} : Truthy(DB_CONFIG[k])

\* The database module a tool module imports.
DbModuleOf(module) ==
    IF module \in {"sales.top_items", "basket.basket_analysis", "basket.item_correlation"}
    THEN "session"
    ELSE IF module = "get_today_date" THEN "none" ELSE "connection"

tool_list_imports ==
    <<"sales.query_realtime", "sales.sales_summary", "sales.sales_trend",
      "sales.top_items", "basket.basket_analysis", "basket.item_correlation",
      "basket.cross_sell", "basket.basket_metrics", "basket.transaction_lookup",
      "analytics.daily_report", "analytics.hourly_sales", "analytics.peak_hours",
      "analytics.sales_anomalies", "analytics.product_velocity",
      "analytics.low_movement", "analytics.sales_gaps", "analytics.year_over_year",
      "analytics.sales_forecast", "item_lookup", "site_lookup", "get_today_date">>

\* server.py asks basket.cross_sell for cross_sell_tool, which it does not
\* define.
server_imports ==
    <<"sales.query_realtime", "sales.sales_summary", "sales.sales_trend",
      "sales.top_items", "basket.basket_analysis", "basket.item_correlation",
      "basket.basket_metrics", "basket.cross_sell:cross_sell_tool">>

fastapi_server_imports ==
    <<"sales.query_realtime", "sales.sales_summary", "sales.sales_trend",
      "sales.top_items", "basket.basket_analysis", "basket.item_correlation",
      "basket.cross_sell">>

validate_db_imports == <<"db.connection">>

FrontEnds == {"mcp_server", "server", "fastapi_server"}

Entries == FrontEnds \cup {"scripts/validate_db"}

ImportsOf(entry) ==
    CASE entry = "mcp_server" -> tool_list_imports
      [] entry = "server" -> server_imports
      [] entry = "fastapi_server" -> fastapi_server_imports
      [] entry = "scripts/validate_db" -> validate_db_imports

Off ==
    [entry |-> "none", status |-> "off", step |-> 0, engine |-> FALSE,
     error |-> None, served |-> 0, query_failed |-> FALSE]

InitStartup ==
    /\ environ \in Environments
    /\ proc = Off

StartProcess ==
    /\ proc.status = "off"
    /\ \E entry \in Entries :
        proc' = [Off EXCEPT !.entry = entry, !.status = "importing", !.step = 1]
    /\ UNCHANGED <<environ, toolvars, dbvars, utilvars>>

\* One import statement of the entry module.
Import ==
    /\ proc.status = "importing"
    /\ LET module == ImportsOf(proc.entry)[proc.step]
           last == proc.step = Len(ImportsOf(proc.entry))
           next == [proc EXCEPT !.step = IF last THEN @ ELSE @ + 1,
                                !.status = IF last THEN "serving" ELSE @]
       IN  IF module = "basket.cross_sell:cross_sell_tool"
           THEN proc' = [proc EXCEPT !.status = "failed",
                                     !.error = [type |-> "ImportError", names |-> <<>>]]
           ELSE IF DbModuleOf(module) = "session" /\ ~proc.engine
                THEN IF engine_py.ok
                     THEN proc' = [next EXCEPT !.engine = TRUE]
                     ELSE proc' = [proc EXCEPT !.status = "failed",
                                               !.error = engine_py.exc]
                ELSE proc' = next
    /\ UNCHANGED <<environ, toolvars, dbvars, utilvars>>

\* The first query of a process that got through its imports, through
\* either provider.  The script's only act is test_connection().
FirstQuery ==
    /\ proc.status = "serving"
    /\ proc.served = 0
    /\ \E provider \in {"connection", "session"}, reachable \in BOOLEAN :
        /\ provider = "session" => proc.engine
        /\ proc' = [proc EXCEPT
                      !.served = 1,
                      !.query_failed =
                          IF provider = "connection"
                          THEN ~(connect_can_succeed /\ reachable)
                          ELSE ~reachable]
    /\ UNCHANGED <<environ, toolvars, dbvars, utilvars>>

Exit ==
    /\ proc.status \in {"failed", "serving"}
    /\ proc' = Off
    /\ UNCHANGED <<environ, toolvars, dbvars, utilvars>>

(***************************************************************************)
(* The helpers of utils.py called on their own: format_date,               *)
(* validate_date_range and safe_divide are pure functions of their         *)
(* arguments (and, for the dates, of the platform's strftime).             *)
(***************************************************************************)
MaxNum == 3

\* The digit runs the date texts are made of: years of four digits (0000
\* and 0999 among them), "999", months and days of two digits and of one.
DigitRuns ==
    {Field(4, y) : y \in {0, 999, 2023, 2024}}
        \cup {Field(3, 999)}
        \cup {Field(2, v) : v \in {1, 2, 12, 13, 29, 31}}
        \cup {Field(1, 1)}

DateTexts ==
    {Str(sep, a, b, c) : sep \in {"-", "/"}, a \in DigitRuns, b \in DigitRuns,
                         c \in DigitRuns}

DateObjects == {DateObj(y, 2, d) : y \in {999, 2024}, d \in {1, 29}}
                   \ {DateObj(999, 2, 29)}

FormatDateInputs == DateTexts \cup DateObjects \cup {Garbage, NotADate}

\* The ends of a range: the texts some format accepts, made of fewer
\* digit runs, and one that none accepts.
RangeRuns ==
    {Field(4, 999), Field(4, 2024), Field(2, 1), Field(2, 12), Field(2, 31),
     Field(1, 1)}

RangeInputs ==
    {x \in DateTexts :
        /\ \A j \in 1..3 : x.f[j] \in RangeRuns
        /\ \E i \in 1..Len(DateFormats) : strptime(x, DateFormats[i]).ok}
        \cup {Garbage}

\* Python numbers as fractions: the integers, and the floats that compare
\* or divide unlike them, -0.0 and nan.
Rational(num, den) == [kind |-> "number", num |-> num, den |-> den]

NegZero == [kind |-> "-0.0", num |-> 0, den |-> 1]

NaN == [kind |-> "nan", num |-> 0, den |-> 1]

Numbers == {Rational(n, 1) : n \in -MaxNum..MaxNum} \cup {NegZero, NaN}

RECURSIVE Gcd(_, _)
Gcd(a, b) == IF b = 0 THEN a ELSE Gcd(b, a % b)

Abs(n) == IF n < 0 THEN -n ELSE n

\* x == 0 holds of 0 and of -0.0; nan equals nothing.
eq_zero(x) == x.kind # "nan" /\ x.num = 0

\* numerator / denominator: ZeroDivisionError on a zero denominator, nan
\* when either is nan, a signed zero for a zero numerator, else the
\* quotient in lowest terms.
truediv(numerator, denominator) ==
    IF eq_zero(denominator) THEN Raise("ZeroDivisionError")
    ELSE IF numerator.kind = "nan" \/ denominator.kind = "nan" THEN Ok(NaN)
    ELSE IF eq_zero(numerator)
         THEN Ok(IF (numerator.kind = "-0.0") # (denominator.num < 0)
                 THEN NegZero ELSE Rational(0, 1))
         ELSE LET p == numerator.num * denominator.den
                  q == numerator.den * denominator.num
                  g == Gcd(Abs(p), Abs(q))
                  sign == IF q < 0 THEN -1 ELSE 1
              IN  Ok(Rational((sign * p) \div g, Abs(q) \div g))

\* The division without the test of the denominator.
safe_divide_unguarded(numerator, denominator, default) ==
    truediv(numerator, denominator)

safe_divide(numerator, denominator, default) ==
    IF eq_zero(denominator) THEN Ok(default) ELSE truediv(numerator, denominator)

Call(fn, args, result) == [fn |-> fn, args |-> args, result |-> result]

NoCall == Call("none", <<>>, None)

InitUtils ==
    /\ call = NoCall
    /\ platform \in Platforms

CallFormatDate ==
    /\ call.fn = "none"
    /\ \E x \in FormatDateInputs :
        call' = Call("format_date", <<x>>, format_date(x))
    /\ UNCHANGED <<platform, toolvars, dbvars, startvars>>

CallValidateDateRange ==
    /\ call.fn = "none"
    /\ \E s \in RangeInputs, e \in RangeInputs :
        call' = Call("validate_date_range", <<s, e>>, validate_date_range(s, e))
    /\ UNCHANGED <<platform, toolvars, dbvars, startvars>>

CallSafeDivide ==
    /\ call.fn = "none"
    /\ \E n \in Numbers, d \in Numbers, default \in Numbers :
        call' = Call("safe_divide", <<n, d, default>>, safe_divide(n, d, default))
    /\ UNCHANGED <<platform, toolvars, dbvars, startvars>>

Return ==
    /\ call.fn # "none"
    /\ call' = NoCall
    /\ UNCHANGED <<platform, toolvars, dbvars, startvars>>

(***************************************************************************)
(* Statements and their parameters.  A statement is the sequence of its    *)
(* placeholders, each with the column it is compared with; an argument     *)
(* value is the text of its Python literal; a bound value remembers the    *)
(* argument it was taken from.  A list and a mapping of parameters are     *)
(* both sequences of bound values, a mapping's in insertion order.         *)
(***************************************************************************)
Qmark(column) == [style |-> "?", key |-> None, column |-> column]

Named(key, column) == [style |-> ":key", key |-> key, column |-> column]

Bound(key, arg, val) == [key |-> key, arg |-> arg, val |-> val]

PyList(items) == [type |-> "list", items |-> items]

PyDict(items) == [type |-> "dict", items |-> items]

IntLiterals == {None, "-1", "0", "7"}

StrLiterals == {None, "", " ", "coke"}

FloatLiterals == {None, "0.0", "5.0"}

\* bool(v) of an argument: None, zero and the empty string are false.
is_truthy(v) == v \notin {None, "0", "0.0", ""}

\* v > 0 of an integer argument that is truthy.
gt_zero(v) == v = "7"

strip(s) == IF s = " " THEN "" ELSE s

When(cond, items) == IF cond THEN items ELSE <<>>

CountStyle(sql, style) ==
    Cardinality({i \in 1..Len(sql) : sql[i].style = style})

(***************************************************************************)
(* db.connection.execute_query hands sql and params to the driver's        *)
(* cursor.execute when params is truthy and sql alone when it is not.  The *)
(* driver (pyodbc) knows the `?` marker only: a list is unpacked into one  *)
(* parameter per marker and the counts must agree; a mapping is a single   *)
(* parameter of a type it cannot bind; `:key` is no marker and reaches the *)
(* server as text it cannot parse.                                         *)
(***************************************************************************)
cursor_execute(sql, params) ==
    IF params.type = "dict" /\ Len(params.items) > 0
    THEN Raise("ProgrammingError")
    ELSE IF CountStyle(sql, "?") # Len(params.items)
         THEN Raise("ProgrammingError")
         ELSE IF CountStyle(sql, ":key") > 0
              THEN Raise("ProgrammingError")
              ELSE Ok(params.items)

\* utils.execute_sql: the statement goes through sqlalchemy's text(), which
\* binds a mapping to the `:key` placeholders by key.
execute_sql_bind(sql, params) ==
    IF {sql[i].key : i \in 1..Len(sql)}
           = {params.items[i].key : i \in 1..Len(params.items)}
    THEN Ok(params.items) ELSE Raise("ArgumentError")

(***************************************************************************)
(* The statements the tools build from their optional filters.             *)
(***************************************************************************)
Statement(sql, params) == [sql |-> sql, params |-> params]

query_sales_realtime_statement(a) ==
    Statement(
        <<Qmark("TOP"), Qmark("SaleDate"), Qmark("SaleDate")>>
            \o (IF is_truthy(a.item_id) THEN <<Qmark("ItemID")>>
                ELSE When(is_truthy(a.item_name), <<Qmark("ItemName")>>))
            \o When(is_truthy(a.site_id), <<Qmark("SiteID")>>)
            \o When(is_truthy(a.category), <<Qmark("Category")>>)
            \o When(is_truthy(a.min_amount), <<Qmark("GrossSales")>>),
        PyList(
            <<Bound(None, "limit", a.limit),
              Bound(None, "start_date", a.start_date),
              Bound(None, "end_date", a.end_date)>>
            \o (IF is_truthy(a.item_id)
                THEN <<Bound(None, "item_id", a.item_id)>>
                ELSE When(is_truthy(a.item_name),
                          <<Bound(None, "item_name", a.item_name)>>))
            \o When(is_truthy(a.site_id), <<Bound(None, "site_id", a.site_id)>>)
            \o When(is_truthy(a.category), <<Bound(None, "category", a.category)>>)
            \o When(is_truthy(a.min_amount),
                    <<Bound(None, "min_amount", a.min_amount)>>)))

low_movement_statement(a) ==
    Statement(
        <<Qmark("SaleDate"), Qmark("SaleDate")>>
            \o When(a.site_id # None, <<Qmark("SiteID")>>)
            \o <<Qmark("SUM(QtySold)")>>,
        PyList(
            <<Bound(None, "start_date", a.start_date),
              Bound(None, "end_date", a.end_date)>>
            \o When(a.site_id # None, <<Bound(None, "site_id", a.site_id)>>)
            \o <<Bound(None, "threshold", a.threshold)>>))

\* sales_summary keeps a positive site_id and item_id and a stripped
\* category and item_name, and builds the statement from what it kept.
sales_summary_kept(a) ==
    [site_id |-> IF is_truthy(a.site_id) /\ gt_zero(a.site_id)
                 THEN a.site_id ELSE None,
     category |-> IF is_truthy(a.category) THEN strip(a.category) ELSE None,
     item_id |-> IF is_truthy(a.item_id) /\ gt_zero(a.item_id)
                 THEN a.item_id ELSE None,
     item_name |-> IF is_truthy(a.item_name) THEN strip(a.item_name) ELSE None]

sales_summary_statement(a) ==
    LET p == sales_summary_kept(a)
    IN  Statement(
            <<Named("start_date", "SaleDate"), Named("end_date", "SaleDate")>>
                \o When(is_truthy(p.site_id), <<Named("site_id", "SiteID")>>)
                \o When(is_truthy(p.category), <<Named("category", "Category")>>)
                \o (IF is_truthy(p.item_id) THEN <<Named("item_id", "ItemID")>>
                    ELSE When(is_truthy(p.item_name),
                              <<Named("item_name", "ItemName")>>)),
            PyDict(
                <<Bound("start_date", "start_date", a.start_date),
                  Bound("end_date", "end_date", a.end_date)>>
                \o When(is_truthy(p.site_id),
                        <<Bound("site_id", "site_id", p.site_id)>>)
                \o When(is_truthy(p.category),
                        <<Bound("category", "category", p.category)>>)
                \o When(is_truthy(p.item_id),
                        <<Bound("item_id", "item_id", p.item_id)>>)
                \o When(is_truthy(p.item_name) /\ ~is_truthy(p.item_id),
                        <<Bound("item_name", "item_name", p.item_name)>>)))

sales_gaps_statement(a) ==
    Statement(
        <<Named("start_date", "SaleDate"), Named("end_date", "SaleDate")>>
            \o When(is_truthy(a.site_id) /\ gt_zero(a.site_id),
                    <<Named("site_id", "SiteID")>>),
        PyDict(
            <<Bound("start_date", "start_date", a.start_date),
              Bound("end_date", "end_date", a.end_date)>>
            \o When(is_truthy(a.site_id) /\ gt_zero(a.site_id),
                    <<Bound("site_id", "site_id", a.site_id)>>)))

(***************************************************************************)
(* The tools called on any filters: what reaches the executor and what the *)
(* executor makes of it.                                                   *)
(***************************************************************************)
RangeArgs == [start_date |-> IsoDate(1), end_date |-> IsoDate(MaxDay)]

QuerySalesRealtimeArgs ==
    {RangeArgs @@ f @@ [limit |-> "1000"] :
        f \in [item_id : IntLiterals, item_name : StrLiterals,
               site_id : IntLiterals, category : StrLiterals,
               min_amount : FloatLiterals]}

LowMovementArgs ==
    {RangeArgs @@ f : f \in [site_id : IntLiterals, threshold : {"0", "10"}]}

SalesSummaryArgs ==
    {RangeArgs @@ f :
        f \in [item_id : IntLiterals, item_name : StrLiterals,
               site_id : IntLiterals, category : StrLiterals]}

Executed(st) ==
    [sql |-> st.sql, params |-> st.params,
     bound |-> cursor_execute(st.sql, st.params)]

QuerySalesRealtime ==
    /\ call.fn = "none"
    /\ \E a \in QuerySalesRealtimeArgs :
        call' = Call("query_sales_realtime", a,
                     Executed(query_sales_realtime_statement(a)))
    /\ UNCHANGED <<platform, toolvars, dbvars, startvars>>

QueryLowMovement ==
    /\ call.fn = "none"
    /\ \E a \in LowMovementArgs :
        call' = Call("low_movement", a, Executed(low_movement_statement(a)))
    /\ UNCHANGED <<platform, toolvars, dbvars, startvars>>

QuerySalesSummary ==
    /\ call.fn = "none"
    /\ \E a \in SalesSummaryArgs :
        call' = Call("sales_summary", a, Executed(sales_summary_statement(a)))
    /\ UNCHANGED <<platform, toolvars, dbvars, startvars>>

(***************************************************************************)
(* sales_gaps against a fact table.  The table is the set of the days of   *)
(* January 2024 with a sale (day 0 stands for a day before the month); the *)
(* statement selects those of the range, and the tool walks the range and  *)
(* keeps the days that were not selected.                                  *)
(***************************************************************************)
FactDays == 0..(MaxDay + 1)

select_sale_days(table, start, end) == {d \in table : start <= d /\ d <= end}

RECURSIVE gap_days(_, _, _)
gap_days(cur, end, sold_days) ==
    IF cur > end THEN <<>>
    ELSE When(cur \notin sold_days, <<IsoDate(cur)>>)
             \o gap_days(cur + 1, end, sold_days)

sales_gaps_on(start, end, table) ==
    LET st == sales_gaps_statement([start_date |-> IsoDate(start),
                                    end_date |-> IsoDate(end), site_id |-> None])
        bound == cursor_execute(st.sql, st.params)
    IN  IF bound.ok
        THEN create_tool_response(
                 PyList(gap_days(start, end, select_sale_days(table, start, end))),
                 "sales_gaps", "params", SomeMetadata, None)
        ELSE create_tool_response(PyList(<<>>), "sales_gaps", "params", None,
                                  bound.exc)

QuerySalesGaps ==
    /\ call.fn = "none"
    /\ \E start \in Days, end \in Days, table \in SUBSET FactDays :
        /\ start <= end
        /\ call' = Call("sales_gaps", <<start, end, table>>,
                        sales_gaps_on(start, end, table))
    /\ UNCHANGED <<platform, toolvars, dbvars, startvars>>

(***************************************************************************)
(* Basket analysis against a fact table.  The table gives the set of items *)
(* of each transaction; the counts are COUNT(DISTINCT TransactionID) over  *)
(* the transactions that hold the item or the pair.  A threshold is a      *)
(* rational; a lift is carried in hundredths, as round(lift, 2) leaves it. *)
(***************************************************************************)
MaxTx == 4

BasketItems == {1, 2, 3}

BasketTables ==
    UNION {[1..n -> (SUBSET BasketItems) \ {{}}] : n \in 0..MaxTx}

Supports == {Rational(1, 100), Rational(1, 2)}

Confidences == {Rational(1, 2), Rational(1, 1)}

MaxItemsArgs == {1, 50}

tx_count(table, items) ==
    Cardinality({t \in DOMAIN table : items \subseteq table[t]})

\* The rows of the self-join: item1 < item2 in at least one transaction.
ItemPairs(table) ==
    {[item1 |-> a, item2 |-> b,
      pair_count |-> tx_count(table, {a, b}),
      item1_count |-> tx_count(table, {a}),
      item2_count |-> tx_count(table, {b}),
      total_transactions |-> Len(table)] :
        <<a, b>> \in {ab \in BasketItems \X BasketItems :
                         ab[1] < ab[2] /\ tx_count(table, {ab[1], ab[2]}) > 0}}

\* round(x, 2) of x = num / den, in hundredths (no tie arises within the
\* bounds, so the rounding mode does not show).
round2(num, den) == (200 * num + den) \div (2 * den)

lift_swapped_denominator(pair_count, total, count1, count2) ==
    IF count1 > 0 /\ count2 > 0
    THEN round2(pair_count * total, count1 * count1) ELSE 0

lift_of(pair_count, total, count1, count2) ==
    IF count1 > 0 /\ count2 > 0
    THEN round2(pair_count * total, count1 * count2) ELSE 0

Reported(p) ==
    p @@ [lift |-> lift_of(p.pair_count, p.total_transactions,
                           p.item1_count, p.item2_count)]

\* The orders a descending sort by lift can leave the rows in.
SortedByLift(rows) ==
    {s \in [1..Cardinality(rows) -> rows] :
        /\ \A i, j \in DOMAIN s : s[i] = s[j] => i = j
        /\ \A i, j \in DOMAIN s : i < j => s[i].lift >= s[j].lift}

FirstN(s, n) == SubSeq(s, 1, IF n < Len(s) THEN n ELSE Len(s))

\* BasketRepository.basket_analysis: HAVING pair_count >= int(total *
\* min_support), then the confidence test in the loop.
repository_rows(table, min_support, min_confidence) ==
    {Reported(p) : p \in
        {p \in ItemPairs(table) :
            /\ p.pair_count >= (p.total_transactions * min_support.num)
                                   \div min_support.den
            /\ p.pair_count * min_confidence.den
                   >= min_confidence.num * p.item1_count}}

\* basket_analysis_impl: both tests in the WHERE clause of the statement.
statement_rows(table, min_support, min_confidence) ==
    {Reported(p) : p \in
        {p \in ItemPairs(table) :
            /\ p.pair_count * min_support.den
                   >= min_support.num * p.total_transactions
            /\ p.pair_count * min_confidence.den
                   >= min_confidence.num * p.item1_count}}

basket_analysis_statement ==
    Statement(
        <<Named("start_date", "SaleDate"), Named("end_date", "SaleDate"),
          Named("start_date", "SaleDate"), Named("end_date", "SaleDate"),
          Named("max_items", "TOP"), Named("min_support", "support"),
          Named("min_confidence", "confidence")>>,
        PyDict(<<Bound("start_date", "start_date", IsoDate(1)),
                 Bound("end_date", "end_date", IsoDate(1)),
                 Bound("max_items", "max_items", "50"),
                 Bound("min_support", "min_support", "0.01"),
                 Bound("min_confidence", "min_confidence", "0.5")>>))

BasketArgs ==
    [table : BasketTables, min_support : Supports,
     min_confidence : Confidences, max_items : MaxItemsArgs]

RepositoryBasketAnalysis ==
    /\ call.fn = "none"
    /\ \E a \in BasketArgs :
        \E s \in SortedByLift(repository_rows(a.table, a.min_support,
                                               a.min_confidence)) :
            call' = Call("BasketRepository.basket_analysis", a,
                         FirstN(s, a.max_items))
    /\ UNCHANGED <<platform, toolvars, dbvars, startvars>>

ToolBasketAnalysis ==
    /\ call.fn = "none"
    /\ execute_sql_bind(basket_analysis_statement.sql,
                        basket_analysis_statement.params).ok
    /\ \E a \in BasketArgs :
        \E s \in SortedByLift(statement_rows(a.table, a.min_support,
                                              a.min_confidence)) :
            call' = Call("basket_analysis", a, FirstN(s, a.max_items))
    /\ UNCHANGED <<platform, toolvars, dbvars, startvars>>

(***************************************************************************)
(* year_over_year against a fact table.  Each window's rows are the sales  *)
(* amounts the table holds in it.  The statement selects SUM(GrossSales)   *)
(* and COUNT(DISTINCT TransactionID) without GROUP BY: it always returns   *)
(* one row, and over no rows SUM is NULL (None in Python) while COUNT is   *)
(* 0.  A column value is a number or NULL.                                 *)
(***************************************************************************)
Number(n) == [null |-> FALSE, n |-> n]

Null == [null |-> TRUE, n |-> 0]

Amounts == {0, 5}

WindowRows == UNION {[1..n -> Amounts] : n \in 0..MaxRows}

RECURSIVE SumOf(_)
SumOf(rows) ==
    IF Len(rows) = 0 THEN 0 ELSE rows[1] + SumOf(Tail(rows))

aggregate_row(rows) ==
    [TotalSales |-> IF Len(rows) = 0 THEN Null ELSE Number(SumOf(rows)),
     TransactionCount |-> Number(Len(rows))]

\* dt - relativedelta(years=1): the same month and day a year earlier, the
\* day clipped to the month's length.
minus_one_year(dt) ==
    DateObj(dt.y - 1, dt.m, Min(dt.d, DaysInMonth(dt.y - 1, dt.m)))

\* dt - timedelta(days=365).
minus_365_days(dt) ==
    CHOOSE p \in {DateObj(y, m, d) : y \in {dt.y - 1, dt.y}, m \in 1..12,
                                      d \in 1..31} :
        /\ p.d <= DaysInMonth(p.y, p.m)
        /\ toordinal(p) = toordinal(dt) - 365

\* a - b and safe_divide on column values: None in either raises TypeError.
change_pct(current, previous) ==
    IF current.null \/ previous.null THEN Raise("TypeError")
    ELSE safe_divide(Rational(current.n - previous.n, 1),
                     Rational(previous.n, 1), Rational(0, 1))

YoyResult(raised, env, change, previous_range) ==
    [raised |-> raised, env |-> env, change |-> change,
     previous_range |-> previous_range]

\* The revision with relativedelta and the try block (lines 18-30, 41-83).
year_over_year_on(start, end, cur_rows, prev_rows) ==
    LET current == aggregate_row(cur_rows)
        previous == aggregate_row(prev_rows)
        sales == change_pct(current.TotalSales, previous.TotalSales)
        transactions == change_pct(current.TransactionCount,
                                   previous.TransactionCount)
        window == <<strftime(minus_one_year(start)),
                    strftime(minus_one_year(end))>>
    IN  IF sales.ok /\ transactions.ok
        THEN YoyResult(FALSE,
                       create_tool_response(DictOf(YoyKeys), "year_over_year",
                                            "params", SomeMetadata, None),
                       sales.val, window)
        ELSE YoyResult(FALSE,
                       create_tool_response(DictOf({}), "year_over_year", "[]",
                                            None, "TypeError"),
                       None, window)

\* The revision with timedelta(days=365) and no try block (lines 32-39,
\* 89-120).
year_over_year_unguarded_on(start, end, cur_rows, prev_rows) ==
    LET current == aggregate_row(cur_rows)
        previous == aggregate_row(prev_rows)
        sales == change_pct(current.TotalSales, previous.TotalSales)
        window == <<Written(minus_365_days(start), "%Y-%m-%d"),
                    Written(minus_365_days(end), "%Y-%m-%d")>>
    IN  IF sales.ok
        THEN YoyResult(FALSE,
                       create_tool_response(
                           DictOf({"current_period", "previous_period",
                                   "sales_change"}),
                           "year_over_year", "params", SomeMetadata, None),
                       sales.val, window)
        ELSE YoyResult(TRUE, NoEnvelope, None, window)

YoyDates ==
    {DateObj(2024, 1, 1), DateObj(2024, 1, 31), DateObj(2024, 2, 29),
     DateObj(2024, 3, 1)}

YoyArgs ==
    {a \in [start : YoyDates, end : YoyDates, cur_rows : WindowRows,
            prev_rows : WindowRows] : toordinal(a.start) <= toordinal(a.end)}

QueryYearOverYear ==
    /\ call.fn = "none"
    /\ \E a \in YoyArgs :
        call' = Call("year_over_year", a,
                     year_over_year_on(a.start, a.end, a.cur_rows, a.prev_rows))
    /\ UNCHANGED <<platform, toolvars, dbvars, startvars>>

QueryYearOverYearUnguarded ==
    /\ call.fn = "none"
    /\ \E a \in YoyArgs :
        call' = Call("year_over_year/unguarded", a,
                     year_over_year_unguarded_on(a.start, a.end, a.cur_rows,
                                                 a.prev_rows))
    /\ UNCHANGED <<platform, toolvars, dbvars, startvars>>

(***************************************************************************)
(* The specifications: the front ends and tools serving one request at a   *)
(* time, the connection providers under concurrent callers, a process      *)
(* starting up in any environment, and the helpers called on any input.    *)
(***************************************************************************)
\* A started process with its credentials, and no helper call under way.
StartupQuiet == environ = FullEnvironment /\ proc = Off

UtilsQuiet == call = NoCall /\ platform = "glibc"

Init == InitTools /\ InitDb /\ StartupQuiet /\ UtilsQuiet

Next ==
    \/ CallRangeTool
    \/ CallPlainTool
    \/ CallSalesTrend
    \/ CallSalesSummary
    \/ CallTopItems
    \/ CallYearOverYear
    \/ CallItemLookup
    \/ McpCallTool
    \/ ServerCallTool
    \/ HttpCall1
    \/ HttpCall2
    \/ HttpCall3
    \/ HttpPostTool
    \/ McpListTools
    \/ ServerListTools
    \/ HttpGetTools
    \/ BuildToolResponse
    \/ BuildFormatResponse
    \/ Done

Spec == Init /\ [][Next]_vars

InitDbSpec ==
    /\ InitTools
    /\ implemented = SourceBound
    /\ InitDb
    /\ StartupQuiet
    /\ UtilsQuiet

NextDb ==
    \/ \E t \in Callers : Enter(t)
    \/ \E t \in Callers : Pop(t)
    \/ \E t \in Callers : TestAlive(t)
    \/ \E t \in Callers : Connect(t)
    \/ \E t \in Callers : Body(t)
    \/ \E t \in Callers : CheckRoom(t)
    \/ \E t \in Callers : ReturnToPool(t)
    \/ \E t \in Callers : Finally(t)
    \/ \E t \in Callers : Leave(t)
    \/ ConnectionDies
    \/ OtherArrives
    \/ OtherLeaves

SpecDb == InitDbSpec /\ [][NextDb]_vars

InitStartupSpec ==
    /\ InitTools
    /\ implemented = SourceBound
    /\ InitDb
    /\ InitStartup
    /\ UtilsQuiet

NextStartup ==
    \/ StartProcess
    \/ Import
    \/ FirstQuery
    \/ Exit

SpecStartup == InitStartupSpec /\ [][NextStartup]_vars

InitUtilsSpec ==
    /\ InitTools
    /\ implemented = SourceBound
    /\ InitDb
    /\ StartupQuiet
    /\ InitUtils

NextUtils ==
    \/ CallFormatDate
    \/ CallValidateDateRange
    \/ CallSafeDivide
    \/ Return

SpecUtils == InitUtilsSpec /\ [][NextUtils]_vars

InitQuerySpec == InitUtilsSpec /\ platform = "glibc"

NextQuery ==
    \/ QuerySalesRealtime
    \/ QueryLowMovement
    \/ QuerySalesSummary
    \/ QuerySalesGaps
    \/ QueryYearOverYear
    \/ QueryYearOverYearUnguarded
    \/ Return

SpecQuery == InitQuerySpec /\ [][NextQuery]_vars

NextBasket ==
    \/ RepositoryBasketAnalysis
    \/ ToolBasketAnalysis
    \/ Return

SpecBasket == InitQuerySpec /\ [][NextBasket]_vars

(***************************************************************************)
(* Properties.                                                             *)
(***************************************************************************)
\* An implementation was called directly and returned `env`.
ImplReturned ==
    /\ pc = "done"
    /\ request.frontend = "impl"
    /\ ~response.result.raised

env == response.result.env

HasError(e) == "error" \in DOMAIN e

\* The implementations that take a date range.
DateRangeImpls ==
    RangeImpls \cup YoyImpls \cup {"sales_trend", "sales_summary", "top_items"}

BadRange(a) == ~validate_date_range(a.start_date, a.end_date).ok

\* The executor raised during the call: one of the queries issued raised.
ExecutorRaised ==
    \E i \in 1..response.result.queries : request.db[i].exc # None

FirstFailure ==
    CHOOSE i \in 1..response.result.queries :
        /\ request.db[i].exc # None
        /\ \A j \in 1..(i - 1) : request.db[j].exc = None

\* C1: every result a tool implementation returns has the `error` key
\* exactly when `success` is false.
C1_ErrorIffNotSuccess ==
    ImplReturned => (HasError(env) <=> (env.success = FALSE))

\* C2: a date-range tool called with an unparsable date or with start after
\* end returns a failure envelope, does not raise and runs no query.
C2_BadRangeIsErrorEnvelope ==
    (/\ pc = "done"
     /\ request.frontend = "impl"
     /\ request.name \in DateRangeImpls
     /\ BadRange(request.arguments))
        => /\ ~response.result.raised
           /\ env.success = FALSE
           /\ HasError(env)
           /\ response.result.queries = 0

\* C3: when the executor raises during a call, the tool does not raise: it
\* returns success=false, the exception's message as `error`, and empty data.
C3_ExecutorFailureIsErrorEnvelope ==
    (/\ pc = "done"
     /\ request.frontend = "impl"
     /\ ExecutorRaised)
        => /\ ~response.result.raised
           /\ env.success = FALSE
           /\ HasError(env)
           /\ env.error = request.db[FirstFailure].exc
           /\ len(env.data) = 0

\* C4: a call whose queries all run without error and return no row yields
\* success=true without `error`; where the payload is the row list, it is
\* [] with row_count 0.  (year_over_year and sales_gaps derive their payload
\* from the rows and are held to the success part only.)
C4_EmptyResultIsSuccess ==
    (/\ pc = "done"
     /\ request.frontend = "impl"
     /\ response.result.queries > 0
     /\ \A i \in 1..response.result.queries : request.db[i] = Rows(0))
        => /\ ~response.result.raised
           /\ env.success = TRUE
           /\ ~HasError(env)
           /\ request.name \notin (YoyImpls \cup {"sales_gaps"})
                => env.data = ListOf(0) /\ env.row_count = 0

\* The call names a value outside the tool's allow-list (with a valid range).
BadEnum ==
    /\ ~BadRange(request.arguments)
    /\ \/ /\ request.name = "sales_summary"
          /\ request.arguments.group_by \ ALLOWED_GROUPS # {}
       \/ /\ request.name = "sales_trend"
          /\ \/ lower(request.arguments.interval) \notin interval_mapping
             \/ lower(request.arguments.metric) \notin metric_mapping
       \/ /\ request.name = "top_items"
          /\ request.arguments.metric \notin {"sales", "quantity", "transactions"}

\* C5: a group_by, interval or metric outside the allow-list gives a failure
\* envelope, without raising and without running a query.
C5_BadEnumIsErrorEnvelope ==
    (/\ pc = "done"
     /\ request.frontend = "impl"
     /\ BadEnum)
        => /\ ~response.result.raised
           /\ env.success = FALSE
           /\ HasError(env)
           /\ response.result.queries = 0

\* C6: create_tool_response gives success=false and the supplied `error`
\* for any error other than None (the empty string included), success=true
\* and no `error` for None, and passes data through unchanged.
C6_SuccessIffNoErrorSupplied ==
    (pc = "done" /\ built.fn = "create_tool_response")
        => /\ built.env.data = built.data
           /\ IF built.error # None
              THEN /\ built.env.success = FALSE
                   /\ HasError(built.env)
                   /\ built.env.error = built.error
              ELSE /\ built.env.success = TRUE
                   /\ ~HasError(built.env)

\* The payload types that are sequences, and the one the builders count.
SequenceTypes == {"list", "tuple"}

RowCountAgrees(e, counted) ==
    e.row_count = (IF e.data.type \in counted THEN Len(e.data.items) ELSE 1)

ListOfFrontend(frontend) ==
    IF frontend = "mcp_server" THEN mcp_server_tools ELSE server_tools

\* C8: call-tool with an unregistered name returns an "unknown tool" block,
\* with a registered but unbound tool a "no implementation" block; neither
\* raises nor runs an implementation.
C8_DispatchFailuresAreStructured ==
    (pc = "done" /\ request.frontend \in {"mcp_server", "server"})
        => /\ request.name \notin Names(ListOfFrontend(request.frontend))
                => /\ response.kind = "unknown_tool"
                   /\ ~response.raised
                   /\ ~response.invoked
           /\ (/\ request.name \in Names(ListOfFrontend(request.frontend))
               /\ request.name \notin implemented)
                => /\ response.kind = "no_implementation"
                   /\ ~response.raised
                   /\ ~response.invoked

C8_Witness ==
    /\ pc = "done"
    /\ request.frontend = "mcp_server"
    /\ request.name = "sales_summary"
    /\ implemented = {}
    /\ response.kind = "no_implementation"

\* The tool list a POST /call handler looks names up in.
ListOfCallHandler(frontend) ==
    IF frontend = "fastapi/call/3" THEN fastapi_tools_tail ELSE fastapi_TOOLS

\* C9: POST /call with an unregistered name is answered with status 404 and
\* runs no implementation and no query.
C9_UnknownToolIsNotFound ==
    (/\ pc = "done"
     /\ request.frontend \in {"fastapi/call/1", "fastapi/call/2", "fastapi/call/3"}
     /\ request.name \notin Names(ListOfCallHandler(request.frontend)))
        => /\ response.status = 404
           /\ ~response.invoked
           /\ response.result.queries = 0

\* C10: POST /<tool_name> for a registered tool: a body with an undeclared
\* field is answered 422 without running the implementation; a body of
\* declared fields runs it and is answered 200 with its result.
C10_PerToolEndpoint ==
    /\ (pc = "done" /\ request.frontend = "fastapi/tool/extra")
            => response.status = 422 /\ ~response.invoked
    /\ (pc = "done" /\ request.frontend = "fastapi/tool"
            /\ request.name \in implemented)
            => response.status = 200 /\ response.invoked

\* The tool sets in use: tool_list.TOOLS and the list of each front end.
ActiveToolSets ==
    {TOOLS, create_server_tools, create_server_list_tools, main_list_tools,
     fastapi_TOOLS, fastapi_tools_tail}

NoDuplicate(tools) == \A i, j \in 1..Len(tools) : tools[i] = tools[j] => i = j

ExpectedServerTools == 18

ExpectedHttpTools == 20

\* C12: list-tools returns every registered tool once: create_server's
\* server.tools holds the 18 tools of the registration list and list_tools
\* returns that same set; GET /tools returns the 20 registered tools.
C12_ListToolsReturnsAll ==
    /\ (pc = "done" /\ request.frontend = "mcp_server/list_tools")
            => /\ Len(listed.attached) = ExpectedServerTools
               /\ Names(listed.returned) = Names(listed.attached)
               /\ NoDuplicate(listed.returned)
    /\ (pc = "done" /\ request.frontend = "fastapi/tools")
            => /\ Len(listed.returned) = ExpectedHttpTools
               /\ NoDuplicate(listed.returned)

\* A caller between entering the scope and leaving it.
InScope(t) == callers[t].pc \notin {"idle", "done"}

\* C13: every connection or session acquired for a call is released on every
\* exit path: no open connection is left that neither the list nor a call
\* in progress refers to, and when a call has ended its connection is
\* closed or back in the list and its session is closed.
C13_ReleasedOnEveryPath ==
    /\ \A c \in ConnIds :
        IsOpen(c) => \/ c \in Pooled
                     \/ \E t \in Callers : InScope(t) /\ callers[t].conn = c
    /\ \A t \in Callers :
        ~InScope(t) => /\ callers[t].conn = 0
                       /\ ~IsOpen(Local(t))
                       /\ callers[t].session # "open"

\* A call whose rows could not be read has ended with its connection closed.
C13_Witness ==
    \E t \in Callers :
        /\ callers[t].pc = "done"
        /\ callers[t].via = "get_connection"
        /\ callers[t].body = "rows raised"
        /\ ~IsOpen(Local(t))

\* C14: the scoped helpers (get_connection, get_db) commit when the body
\* completes, and roll back and re-raise the same exception when it raises.
C14_CommitOrRollback ==
    \A t \in Callers :
        (callers[t].pc = "done" /\ callers[t].via \in {"get_connection", "get_db"}
            /\ callers[t].body # "none")
            => IF callers[t].body = "ok"
               THEN callers[t].committed
               ELSE callers[t].rolled_back /\ callers[t].exc = callers[t].body

\* C15: the connections open at the same time never exceed the bound of the
\* pool; connection.py has no overflow, its bound is MAX_POOL_SIZE.
C15_OpenConnectionsBounded == OpenConnections <= MAX_POOL_SIZE

Required == {"DB_USERNAME", "DB_PASSWORD", "DB_SERVER", "DB_DATABASE"}

Unset == {n \in EnvNames : environ[n] = None}

CredentialsMissing == "DATABASE_URL" \in Unset /\ Unset \cap Required # {}

Range(seq) == {seq[i] : i \in 1..Len(seq)}

\* C17: started without the required credentials, a front end never gets
\* to serve a request or to run a query: its start-up fails, and the
\* failure is the configuration error that names every missing variable.
C17_MissingCredentialsFailStartup ==
    (proc.entry \in FrontEnds /\ CredentialsMissing)
        => /\ proc.status \in {"importing", "failed"}
           /\ proc.served = 0
           /\ proc.status = "failed"
                => /\ proc.error.type = "ValueError"
                   /\ Unset \cap Required \subseteq Range(proc.error.names)

\* The MCP server failed to start with two settings unset, both named.
C17_Witness ==
    /\ proc.entry = "mcp_server"
    /\ proc.status = "failed"
    /\ CredentialsMissing
    /\ Cardinality(Unset \cap Required) = 2
    /\ Unset \cap Required = Range(proc.error.names)

\* The canonical form of a date: YYYY-MM-DD, four, two and two digits.
Canonical(dt) == Str("-", Field(4, dt.y), Field(2, dt.m), Field(2, dt.d))

\* The days of the calendar the date texts can name.
CalendarDates ==
    {dt \in {DateObj(y, m, d) : y \in {999, 2023, 2024}, m \in {1, 2, 12},
                                 d \in {1, 2, 12, 29, 31}} :
        dt.d <= DaysInMonth(dt.y, dt.m)}

\* The text is the day written in one of the four formats, fields of any
\* accepted width.
Denotes(x, dt) ==
    \E i \in 1..Len(DateFormats) : strptime(x, DateFormats[i]) = Ok(dt)

\* C18: for two inputs that denote days with start <= end,
\* validate_date_range returns the two days in canonical form and in the
\* same order; for start after end it fails.
C18_ValidateDateRange ==
    call.fn = "validate_date_range" =>
        \A ds \in CalendarDates : Denotes(call.args[1], ds) =>
            \A de \in CalendarDates : Denotes(call.args[2], de) =>
                IF toordinal(ds) <= toordinal(de)
                THEN /\ call.result.ok
                     /\ call.result.val = <<Canonical(ds), Canonical(de)>>
                ELSE ~call.result.ok

\* C19: format_date of a day written as MM/DD/YYYY, YYYY/MM/DD, DD-MM-YYYY
\* or YYYY-MM-DD is the canonical YYYY-MM-DD text of that day, on which
\* format_date changes nothing; a string in none of the formats fails.
C19_FormatDateCanonical ==
    call.fn = "format_date" =>
        LET x == call.args[1]
        IN  /\ \A dt \in CalendarDates, i \in 1..Len(DateFormats) :
                x = Written(dt, DateFormats[i])
                    => /\ call.result = Ok(Canonical(dt))
                       /\ format_date(call.result.val) = call.result
            /\ (x.type = "str" /\ \A dt \in CalendarDates : ~Denotes(x, dt)
                    /\ \A i \in 1..Len(DateFormats) : ~strptime(x, DateFormats[i]).ok)
                    => ~call.result.ok

\* The value is the quotient of the two numbers: nan if either is nan, a
\* zero for a zero numerator, else the fraction that multiplied by the
\* denominator gives the numerator.
IsQuotient(r, n, d) ==
    IF n.kind = "nan" \/ d.kind = "nan" THEN r = NaN
    ELSE /\ r.kind # "nan"
         /\ r.den > 0
         /\ r.num * d.num * n.den = n.num * d.den * r.den

\* C20: safe_divide never raises; with a zero denominator it returns the
\* default, with any other denominator the quotient whatever the default.
C20_SafeDivide ==
    call.fn = "safe_divide" =>
        LET n == call.args[1]
            d == call.args[2]
            default == call.args[3]
        IN  /\ call.result.ok
            /\ IF d \in {Rational(0, 1), NegZero}
               THEN call.result.val = default
               ELSE IsQuotient(call.result.val, n, d)

\* A division by zero answered with a default that is neither zero nor
\* the numerator.
C20_Witness ==
    /\ call.fn = "safe_divide"
    /\ call.args = <<Rational(1, 1), Rational(0, 1), Rational(2, 1)>>
    /\ call.result = Ok(Rational(2, 1))

\* C29: the list of idle connections never holds more than MAX_POOL_SIZE
\* connections and holds none twice.
C29_PoolBounded ==
    /\ Len(pool) <= MAX_POOL_SIZE
    /\ \A i, j \in 1..Len(pool) : pool[i] = pool[j] => i = j

\* C30: no closed connection is in the list; the body of a caller runs on a
\* connection that answers, a fresh one where the pooled one failed its
\* test; a caller whose body raised never gets to put its connection back
\* and ends with it closed.
C30_FailedConnectionsDiscarded ==
    /\ \A c \in Pooled : conns[c] # "closed"
    /\ \A t \in Callers :
        /\ (callers[t].via = "get_connection" /\ callers[t].pc = "yield")
               => /\ callers[t].conn = Local(t)
                  /\ conns[Local(t)] = "open"
        /\ callers[t].body \in {"query raised", "rows raised"}
               => /\ callers[t].pc \in {"finally", "done"}
                  /\ callers[t].pc = "done" => ~IsOpen(Local(t))

\* A caller is about to run its body on a fresh connection after the one
\* it took from the list failed the test.
C30_Witness ==
    \E t \in Callers :
        /\ callers[t].pc = "yield"
        /\ callers[t].probe = "failed"
        /\ conns[Local(t)] = "open"

\* C26: the executor accepts the parameters of every tool that calls it, a
\* list for `?` placeholders and a mapping for `:key` placeholders alike,
\* and binds one value per placeholder.
C26_BothStylesAccepted ==
    call.fn \in {"query_sales_realtime", "low_movement", "sales_summary"}
        => /\ call.result.bound.ok
           /\ Len(call.result.bound.val) = Len(call.result.sql)

\* The columns the arguments are compared with.
ColumnOf(arg) ==
    CASE arg = "limit" -> "TOP"
      [] arg \in {"start_date", "end_date"} -> "SaleDate"
      [] arg = "site_id" -> "SiteID"
      [] arg = "category" -> "Category"
      [] arg = "item_id" -> "ItemID"
      [] arg = "item_name" -> "ItemName"
      [] arg = "min_amount" -> "GrossSales"
      [] arg = "threshold" -> "SUM(QtySold)"

HasClause(sql, columns) == \E i \in 1..Len(sql) : sql[i].column \in columns

\* Every parameter sits with the placeholder of its own argument: by
\* position in a list, by key in a mapping.
OneToOne(sql, params) ==
    /\ Len(sql) = Len(params.items)
    /\ params.type = "list" =>
           \A i \in 1..Len(sql) :
               /\ sql[i].style = "?"
               /\ sql[i].column = ColumnOf(params.items[i].arg)
    /\ params.type = "dict" =>
           /\ \A i, j \in 1..Len(sql) :
                   params.items[i].key = params.items[j].key => i = j
           /\ \A i \in 1..Len(sql) :
                   /\ sql[i].style = ":key"
                   /\ \E j \in 1..Len(sql) :
                          /\ params.items[j].key = sql[i].key
                          /\ sql[i].column = ColumnOf(params.items[j].arg)

\* C27: the statement holds a clause for exactly the filters the caller
\* supplied (item_id and item_name share one clause), and its parameters
\* correspond one-to-one to its placeholders.
C27_ClausesMatchSuppliedFilters ==
    call.fn \in {"query_sales_realtime", "low_movement", "sales_summary"}
        => /\ \A f \in DOMAIN call.args \cap {"site_id", "category", "min_amount",
                                               "threshold"} :
                  call.args[f] # None <=> HasClause(call.result.sql, {ColumnOf(f)})
           /\ "item_id" \in DOMAIN call.args =>
                  ((call.args.item_id # None \/ call.args.item_name # None)
                       <=> HasClause(call.result.sql, {"ItemID", "ItemName"}))
           /\ OneToOne(call.result.sql, call.result.params)

\* The part of C27 that holds: parameters and placeholders correspond.
C27_ParametersMatchPlaceholders ==
    call.fn \in {"query_sales_realtime", "low_movement", "sales_summary"}
        => OneToOne(call.result.sql, call.result.params)

\* C21: sales_gaps answers with exactly the days of [start_date, end_date]
\* that have no sale in the data, each once and in ascending order.
C21_GapsAreTheDaysWithoutSales ==
    call.fn = "sales_gaps" =>
        LET start == call.args[1]
            end == call.args[2]
            table == call.args[3]
            gaps == call.result.data.items
        IN  /\ call.result.success
            /\ {gaps[i] : i \in 1..Len(gaps)}
                   = {IsoDate(d) : d \in (start..end) \ table}
            /\ \A i, j \in 1..Len(gaps) :
                   i < j => \E d \in start..end, e \in start..end :
                                d < e /\ gaps[i] = IsoDate(d) /\ gaps[j] = IsoDate(e)

\* The pairs of a table that meet both thresholds exactly.
Qualifying(a) ==
    {p \in ItemPairs(a.table) :
        /\ p.pair_count * a.min_support.den
               >= a.min_support.num * p.total_transactions
        /\ p.pair_count * a.min_confidence.den
               >= a.min_confidence.num * p.item1_count}

Unreported(r) == [k \in DOMAIN r \ {"lift"} |-> r[k]]

\* C23: basket analysis answers with the first max_items, by descending
\* lift, of the pairs whose support and confidence reach the thresholds.
C23_ThresholdsSortAndCap ==
    call.fn \in {"BasketRepository.basket_analysis", "basket_analysis"} =>
        LET r == call.result
            q == Qualifying(call.args)
            n == IF call.args.max_items < Cardinality(q)
                 THEN call.args.max_items ELSE Cardinality(q)
        IN  /\ \A i \in 1..Len(r) : Unreported(r[i]) \in q
            /\ Len(r) = n
            /\ \A i, j \in 1..Len(r) : i < j => r[i].lift >= r[j].lift
            /\ \A i, j \in 1..Len(r) : r[i] = r[j] => i = j
            /\ \A p \in q : \A i \in 1..Len(r) :
                   Reported(p).lift > r[i].lift
                       => \E j \in 1..Len(r) : r[j] = Reported(p)

\* C23 for the tool's statement alone.
C23_StatementThresholdsSortAndCap ==
    call.fn = "basket_analysis" => C23_ThresholdsSortAndCap

\* C24 as stated: the reported lift is the exact ratio.
C24_LiftIsTheExactRatio ==
    call.fn \in {"BasketRepository.basket_analysis", "basket_analysis"} =>
        \A i \in 1..Len(call.result) :
            LET p == call.result[i]
            IN  p.lift * p.item1_count * p.item2_count
                    = 100 * p.pair_count * p.total_transactions

\* C24: the reported lift is the ratio pair_count * total_transactions /
\* (item1_count * item2_count) to the nearest hundredth, and the lift
\* recomputed with item1 and item2 exchanged is the same.
C24_LiftRoundedAndSymmetric ==
    call.fn \in {"BasketRepository.basket_analysis", "basket_analysis"} =>
        \A i \in 1..Len(call.result) :
            LET p == call.result[i]
                d == p.item1_count * p.item2_count
                e == 100 * p.pair_count * p.total_transactions - p.lift * d
            IN  /\ 2 * e <= d /\ -2 * e <= d
                /\ p.lift = lift_of(p.pair_count, p.total_transactions,
                                    p.item2_count, p.item1_count)

C24_Witness ==
    /\ call.fn = "basket_analysis"
    /\ \E i \in 1..Len(call.result) :
           LET p == call.result[i]
           IN  /\ p.item1_count # p.item2_count
               /\ p.lift * p.item1_count * p.item2_count
                      # 100 * p.pair_count * p.total_transactions

\* C22: year_over_year compares with the window one year (or 365 days)
\* earlier and reports safe_divide(current - previous, previous, 0.0) in a
\* successful envelope; a previous total of zero, no rows included, gives a
\* change of 0.0.
C22_PreviousWindowAndChange ==
    call.fn \in {"year_over_year", "year_over_year/unguarded"} =>
        LET a == call.args
            r == call.result
            current == SumOf(a.cur_rows)
            previous == SumOf(a.prev_rows)
        IN  /\ ~r.raised
            /\ r.env.success
            /\ r.change = safe_divide(Rational(current - previous, 1),
                                      Rational(previous, 1), Rational(0, 1)).val
            /\ previous = 0 => r.change = Rational(0, 1)
            /\ (a.start = DateObj(2024, 1, 1) /\ a.end = DateObj(2024, 1, 31))
                   => r.previous_range
                          = <<Written(DateObj(2023, 1, 1), "%Y-%m-%d"),
                              Written(DateObj(2023, 1, 31), "%Y-%m-%d")>>

\* C22 when both windows hold sales rows.
C22_WithRowsInBothWindows ==
    (/\ call.fn \in {"year_over_year", "year_over_year/unguarded"}
     /\ Len(call.args.cur_rows) > 0
     /\ Len(call.args.prev_rows) > 0) => C22_PreviousWindowAndChange

\* C25: the first failing query of a call is its last query, and a call in
\* which a query failed does not answer success=true with rows.
C25_NoQueryAfterFailure ==
    (/\ pc = "done"
     /\ request.frontend = "impl"
     /\ ExecutorRaised)
        => /\ response.result.queries = FirstFailure
           /\ ~response.result.raised
                  => ~(env.success = TRUE /\ len(env.data) > 0)

\* C25 for every tool but item_lookup.
C25_SingleStrategyTools ==
    request.name # "item_lookup" => C25_NoQueryAfterFailure

\* The front ends whose handler looks the tool up by name.
NameDispatchers ==
    {"mcp_server", "server", "fastapi/call/1", "fastapi/call/2",
     "fastapi/call/3"}

\* C28: the call-tool handler of every front end returns, whatever the name
\* and the arguments; when the implementation raised, what it returns is a
\* block with the exception's text.
C28_HandlerNeverRaises ==
    (pc = "done" /\ request.frontend \in NameDispatchers)
        => /\ ~response.raised
           /\ (response.invoked /\ response.result.raised)
                  => response.kind = "exception_text"

\* C28 for the two stdio servers.
C28_StdioHandlersNeverRaise ==
    request.frontend \in {"mcp_server", "server"} => C28_HandlerNeverRaises
====
